---- MODULE Spec2Model ----
(***************************************************************************)
(* Model of the task channel, the uid binding and the user dispatch        *)
(* function of ext-src/swoole_server.cc.  One worker process is modelled:  *)
(* its reactor is single threaded, so every handler below runs from its    *)
(* entry to its return or to the point where its coroutine yields.         *)
(***************************************************************************)
EXTENDS Integers, Sequences, FiniteSets, TLC

\* ------------------------------------------------------------------ bounds
\* number of coroutines of the worker
NumCo == 1
\* longest task list handed to taskCo / taskWaitMulti
MaxList == 3
\* number of tasks the worker dispatches in a run
MaxTaskId == 2
\* number of results the task workers send beyond the first one of each task
MaxDup == 1

\* number of execution units (workers, reactor threads) calling bind on one connection
NumProc == 2
\* largest worker_num of the server the dispatch function is installed in
MaxWorkerNum == 3

Coroutines == 1..NumCo

\* ------------------------------------------------------------------ values
\* a zval that was never assigned
NullValue == -2
\* the PHP value false, the failure marker of add_index_bool(return_value, i, 0)
FalseValue == -1
\* the result a task worker returns for task `task_id` (one value per task)
Res(task_id) == task_id

\* a PHP array indexed by integers: a function from the indices that exist
EmptyArray == [i \in {} |-> NullValue]
add_index(arr, i, v) == [j \in (DOMAIN arr) \cup {i} |-> IF j = i THEN v ELSE arr[j]]
php_swoole_array_length(arr) == Cardinality(DOMAIN arr)
\* std::unordered_map: erase(key) and operator[]=
map_erase(m, key) == [j \in (DOMAIN m) \ {key} |-> m[j]]
map_set(m, key, v) == [j \in (DOMAIN m) \cup {key} |-> IF j = key THEN v ELSE m[j]]

VARIABLES
    task_coroutine_map,  \* ServerProperty::task_coroutine_map : TaskId -> TaskCo*
    task_callbacks,      \* ServerProperty::task_callbacks : TaskId -> Callable*
    calls,               \* the TaskCo objects alive on the stacks of suspended coroutines
    n_calls,             \* number of TaskCo objects created so far (names the next one)
    current_task_id,     \* the id the next dispatched task gets
    tasks,               \* the dispatched tasks: flags, results in flight, what happened
    last_return,         \* the TaskCo of the call that returned last, as it returned
    has_onFinish,        \* whether an onFinish callback is registered
    crashed              \* the process was terminated by a memory fault

taskVars == <<task_coroutine_map, task_callbacks, calls, n_calls, current_task_id,
              tasks, last_return, has_onFinish, crashed>>

VARIABLES
    conn_uid,            \* Connection::uid of the connection bind is called on
    conn_lock,           \* Connection::lock: 0 when free, else the unit holding it
    binds                \* per execution unit: where its bind call is, its argument, its result

bindVars == <<conn_uid, conn_lock, binds>>

VARIABLES
    dispatch             \* the last call of the dispatch function: inputs and returned value

dispatchVars == <<dispatch>>

VARIABLES
    conns,               \* the connection list of the server, one record per connection
    heartbeat            \* the last call of heartbeat: its argument and what it returned

heartbeatVars == <<conns, heartbeat>>

VARIABLES
    signals,             \* signals[SW_SIGNO_MAX]: handler and activated flag per signal number
    triggered_signals,   \* triggered_signals[SW_SIGNO_MAX]
    signal_dispatch,     \* SwooleG.signal_dispatch
    os,                  \* what the kernel holds: dispositions, blocked mask, signalfd, pending
    signalfd_mask,       \* the static signalfd_mask
    signal_fd,           \* the static signal_fd, -1 while there is none
    sig_env,             \* enable_signalfd, whether a reactor exists, whether setup calls fail
    dispatching,         \* where swoole_signal_dispatch is in its loop, and what it did
    frames,              \* the activations of signal_handler_simple on the stack
    simple_lock,         \* the static _lock of signal_handler_simple
    sig_last             \* the last thing the signal code did: a call's result, an invocation, a warning

signalVars == <<signals, triggered_signals, signal_dispatch, os, signalfd_mask, signal_fd,
                sig_env, dispatching, frames, simple_lock, sig_last>>

VARIABLES
    send_coroutine_map,  \* ServerProperty::send_coroutine_map : SessionId -> list of Coroutine*
    senders,             \* per coroutine: where its send call is and what it returned
    send_server,         \* enable_coroutine, send_yield, and the sessions already closed
    arrival,             \* pairs <<a, b>>: a was queued before b, both still wait on one session
    drained              \* the last run of onBufferEmpty or onClose: the list it took, the resumes

sendVars == <<send_coroutine_map, senders, send_server, arrival, drained>>

VARIABLES
    server_state,        \* is_started, is_shutdown, and how often start ran its two setup calls
    start_env,           \* whether an event loop exists, whether the caller is a worker thread
    commands,            \* the server's command table: name -> accepted process types
    command_callbacks,   \* ServerProperty::command_callbacks
    cmd_co,              \* per coroutine: where its command() call is and what it returned
    cmd_last             \* the last call of start or addCommand: arguments and result

cmdVars == <<server_state, start_env, commands, command_callbacks, cmd_co, cmd_last>>

VARIABLES
    task_buf,            \* Task::pack and Task::unpack: the payload, the EventData, the result
    tmpfiles             \* the temp files that carry large task payloads: name -> content

packVars == <<task_buf, tmpfiles>>

VARIABLES
    tasking_num,         \* serv->gs->tasking_num, the tasks in flight
    worker_tasks         \* per task sent to a task worker: how far it is, what onTask did

workerVars == <<tasking_num, worker_tasks>>

VARIABLES
    settings,            \* what set() configures: worker_num, the CPUs workers may be pinned to
    set_last             \* the last call of set(): its options, what it returned and did

setVars == <<settings, set_last>>

VARIABLES
    callbacks,           \* ServerProperty::callbacks : event type -> Callable*, 0 for nullptr
    callables,           \* the Callable objects created by on(): "live" or "freed"
    properties,          \* the onXxx properties of the server object
    ports,               \* ServerProperty::ports
    user_processes,      \* ServerProperty::user_processes
    cfg_last             \* the last call of on(), listen() or addProcess()

cfgVars == <<callbacks, callables, properties, ports, user_processes, cfg_last>>

VARIABLES
    procs,               \* per process: its copy of signal_fd, signalfd_create_pid, its reactor
    signalfds,           \* the signalfd objects of the kernel: the process that created each
    epolls,              \* the event loops of the kernel: the signalfd objects each one polls
    teardown_last        \* the last reactor teardown: who ran it, what the callback did

forkVars == <<procs, signalfds, epolls, teardown_last>>

\* the state of the handlers that share nothing with the parts above
moreVars == <<sendVars, cmdVars, packVars, workerVars, setVars, cfgVars, forkVars>>

\* the state of the parts that have no share in the tasks, bind or dispatch
otherVars == <<heartbeatVars, signalVars, moreVars>>

baseVars == <<taskVars, bindVars, dispatchVars, heartbeatVars, signalVars>>
nonSendVars == <<baseVars, cmdVars, packVars, workerVars, setVars, cfgVars, forkVars>>
nonCmdVars == <<baseVars, sendVars, packVars, workerVars, setVars, cfgVars, forkVars>>
nonPackVars == <<baseVars, sendVars, cmdVars, workerVars, setVars, cfgVars, forkVars>>
nonWorkerVars == <<baseVars, sendVars, cmdVars, packVars, setVars, cfgVars, forkVars>>
nonSetVars == <<baseVars, sendVars, cmdVars, packVars, workerVars, cfgVars, forkVars>>
nonCfgVars == <<baseVars, sendVars, packVars, workerVars, setVars, commands, command_callbacks,
               cmd_co, cmd_last, start_env, forkVars>>
nonForkVars == <<baseVars, sendVars, cmdVars, packVars, workerVars, setVars, cfgVars>>

vars == <<taskVars, bindVars, dispatchVars, otherVars>>

\* what the task handlers leave alone
nonTaskVars == <<bindVars, dispatchVars, otherVars>>

\* ---------------------------------------------------------------- coroutines
\* A TaskCo lives on the stack of the method that created it: it is alive
\* exactly while that method's coroutine is suspended in yield_ex.
is_alive(cs, k) == k \in DOMAIN cs
\* whether coroutine c is suspended in a task call
is_suspended(cs, c) == \E k \in DOMAIN cs : cs[k].co = c
suspended_in(cs, c) == CHOOSE k \in DOMAIN cs : cs[k].co = c

NoCall == [kind |-> "none"]

TaskInit ==
    /\ task_coroutine_map = EmptyArray
    /\ task_callbacks = EmptyArray
    /\ calls = EmptyArray
    /\ n_calls = 0
    /\ current_task_id = 0
    /\ tasks = EmptyArray
    /\ last_return = NoCall
    /\ crashed = FALSE

\* a task handed to a task worker by Server::task.  api is the method that
\* dispatched it, mode the SW_TASK_COROUTINE / SW_TASK_CALLBACK flag of its
\* envelope; results counts the results sent for it, pending those in flight.
\* The other fields record what happened to it: a result reached onFinish
\* while its caller was tracked (arrived), was handed to the waiting taskwait
\* (delivered), its caller's wait timed out (timed_out), onFinish unpacked a
\* result of it (finished), logged that nothing tracks it (warned), ran its
\* callback (cb_runs) or the onFinish handler (onFinish_runs).
new_task(api, mode) ==
    [api |-> api, mode |-> mode, results |-> 0, pending |-> 0,
     arrived |-> FALSE, delivered |-> FALSE, timed_out |-> FALSE,
     finished |-> 0, warned |-> FALSE, cb_runs |-> 0, onFinish_runs |-> 0]

new_TaskCo(kind, c, task_id, list_null, list, count, result) ==
    [kind |-> kind, co |-> c, task_id |-> task_id,
     list_null |-> list_null, list |-> list, count |-> count,
     result |-> result, value |-> NullValue]

\* ------------------------------------------------------------------ taskwait
\* PHP_METHOD(swoole_server, taskwait), coroutine branch, up to yield_ex.
\* An id burnt by a failed pack or dispatch is never seen again, so only the
\* ids of dispatched tasks are counted.
taskwait(c, pack_ok, task_ok) ==
    /\ UNCHANGED nonTaskVars
    /\ ~crashed
    /\ ~is_suspended(calls, c)
    /\ current_task_id < MaxTaskId
    /\ IF ~pack_ok \/ ~task_ok
       THEN UNCHANGED taskVars
       ELSE LET task_id == current_task_id
                k == n_calls + 1
            IN /\ current_task_id' = current_task_id + 1
               /\ n_calls' = k
               /\ tasks' = map_set(tasks, task_id, new_task("taskwait", "coroutine"))
               /\ calls' = map_set(calls, k,
                     new_TaskCo("taskwait", c, task_id, TRUE, EmptyArray, 1, EmptyArray))
               /\ task_coroutine_map' = map_set(task_coroutine_map, task_id, k)
               /\ UNCHANGED <<task_callbacks, last_return, has_onFinish, crashed>>

\* taskwait that forgets to erase its id after yield_ex
taskwait_after_yield_keep(call, retval, m) ==
    [map |-> m,
     call |-> [call EXCEPT !.value = IF retval THEN @ ELSE FalseValue]]

\* taskwait after yield_ex returned `retval`: erase the id, return the value or false
taskwait_after_yield(call, retval, m) ==
    [map |-> map_erase(m, call.task_id),
     call |-> [call EXCEPT !.value = IF retval THEN @ ELSE FalseValue]]

\* -------------------------------------------------------------------- taskCo
\* what happens to one task of the list: it is dispatched, or php_swoole_server_task_pack
\* or Server::task fails (both reach the _fail label)
Outcomes == {"ok", "fail"}
TaskLists == UNION {[1..n -> Outcomes] : n \in 0..MaxList}
ok_num(ztasks) == Cardinality({j \in DOMAIN ztasks : ztasks[j] = "ok"})

\* the SW_HASHTABLE_FOREACH loop of taskCo over ztasks; st.i is the loop counter
RECURSIVE taskCo_foreach(_, _, _, _)
taskCo_foreach(ztasks, function_name, k, st) ==
    IF st.i >= Len(ztasks)
    THEN st
    ELSE LET sent == ztasks[st.i + 1] = "ok"
             task_id == IF sent THEN st.next_id ELSE -1
         IN taskCo_foreach(ztasks, function_name, k,
               [i |-> st.i + 1,
                n_task |-> IF sent THEN st.n_task ELSE st.n_task - 1,
                list |-> add_index(st.list, st.i, task_id),
                return_value |-> IF sent THEN st.return_value
                                 ELSE add_index(st.return_value, st.i, FalseValue),
                map |-> IF sent THEN map_set(st.map, task_id, k) ELSE st.map,
                next_id |-> IF sent THEN st.next_id + 1 ELSE st.next_id,
                tasks |-> IF sent
                          THEN map_set(st.tasks, task_id, new_task(function_name, "coroutine"))
                          ELSE st.tasks])

\* PHP_METHOD(swoole_server, taskCo) up to yield_ex; function_name is "taskCo", or
\* "taskWaitMulti" when taskWaitMulti passes the call through inside a coroutine
taskCo(c, function_name, ztasks) ==
    /\ UNCHANGED nonTaskVars
    /\ ~crashed
    /\ ~is_suspended(calls, c)
    /\ current_task_id + ok_num(ztasks) <= MaxTaskId
    /\ LET k == n_calls + 1
           st == taskCo_foreach(ztasks, function_name, k,
                    [i |-> 0, n_task |-> Len(ztasks), list |-> EmptyArray,
                     return_value |-> EmptyArray, map |-> task_coroutine_map,
                     next_id |-> current_task_id, tasks |-> tasks])
       IN /\ current_task_id' = st.next_id
          /\ tasks' = st.tasks
          /\ task_coroutine_map' = st.map
          /\ IF st.n_task = 0
             THEN UNCHANGED <<calls, n_calls>>
             ELSE /\ n_calls' = k
                  /\ calls' = map_set(calls, k,
                        new_TaskCo(function_name, c, -1, FALSE, st.list, st.n_task,
                                   st.return_value))
    /\ UNCHANGED <<task_callbacks, last_return, has_onFinish, crashed>>

\* the loop of taskCo after yield_ex timed out, over i < n_task
RECURSIVE taskCo_timeout_loop(_, _, _, _)
taskCo_timeout_loop(i, call, is_called_in_taskCo, st) ==
    IF i >= call.count
    THEN st
    ELSE IF i \notin DOMAIN st.result
         THEN taskCo_timeout_loop(i + 1, call, is_called_in_taskCo,
                 [result |-> IF is_called_in_taskCo
                             THEN add_index(st.result, i, FalseValue)
                             ELSE st.result,
                  map |-> map_erase(st.map, call.list[i])])
         ELSE taskCo_timeout_loop(i + 1, call, is_called_in_taskCo, st)

\* taskCo after yield_ex returned `retval`
taskCo_after_yield(call, retval, m) ==
    IF retval
    THEN [map |-> m, call |-> call]
    ELSE LET st == taskCo_timeout_loop(0, call, call.kind = "taskCo",
                                       [result |-> call.result, map |-> m])
         IN [map |-> st.map, call |-> [call EXCEPT !.result = st.result]]

\* yield_ex of TaskCo k returns retval and its method runs to its return: the
\* TaskCo leaves the stack.  `cause` records what woke the coroutine.
yield_return(k, retval, cause, cs, m) ==
    LET out == IF cs[k].kind = "taskwait"
               THEN taskwait_after_yield(cs[k], retval, m)
               ELSE taskCo_after_yield(cs[k], retval, m)
    IN [calls |-> map_erase(cs, k), map |-> out.map,
        last |-> [kind |-> out.call.kind, task_id |-> out.call.task_id,
                  list |-> out.call.list, result |-> out.call.result,
                  value |-> out.call.value, cause |-> cause]]

\* the ids of a call that are still waited for when its wait times out
outstanding(call, ts) ==
    IF call.list_null
    THEN {call.task_id}
    ELSE {call.list[i] : i \in {j \in DOMAIN call.list :
                                    call.list[j] >= 0 /\ ~ts[call.list[j]].arrived}}

\* the timer of yield_ex(timeout) fires for a suspended coroutine
timeout(c) ==
    /\ UNCHANGED nonTaskVars
    /\ ~crashed
    /\ is_suspended(calls, c)
    /\ LET k == suspended_in(calls, c)
           out == yield_return(k, FALSE, "timeout", calls, task_coroutine_map)
       IN /\ calls' = out.calls
          /\ task_coroutine_map' = out.map
          /\ last_return' = out.last
          /\ tasks' = [id \in DOMAIN tasks |->
                         IF id \in outstanding(calls[k], tasks)
                         THEN [tasks[id] EXCEPT !.timed_out = TRUE]
                         ELSE tasks[id]]
    /\ UNCHANGED <<task_callbacks, n_calls, current_task_id, has_onFinish, crashed>>

\* ---------------------------------------------------------------------- task
\* PHP_METHOD(swoole_server, task) in a worker; zfn is "none", "valid" or "invalid"
task(zfn, pack_ok, task_ok) ==
    /\ UNCHANGED nonTaskVars
    /\ ~crashed
    /\ current_task_id < MaxTaskId
    /\ IF ~pack_ok \/ zfn = "invalid"
       THEN UNCHANGED taskVars
       ELSE LET task_id == current_task_id IN
            /\ current_task_id' = current_task_id + 1
            /\ task_callbacks' = IF zfn = "valid"
                                 THEN map_set(task_callbacks, task_id, task_id)
                                 ELSE task_callbacks
            /\ tasks' = IF task_ok
                        THEN map_set(tasks, task_id,
                                new_task("task", IF zfn = "valid" THEN "callback" ELSE "plain"))
                        ELSE tasks
            /\ UNCHANGED <<task_coroutine_map, calls, n_calls, last_return,
                           has_onFinish, crashed>>

\* results sent beyond the first one of each task
dup_num == LET extra(id) == IF tasks[id].results > 1 THEN tasks[id].results - 1 ELSE 0
               RECURSIVE sum(_)
               sum(S) == IF S = {} THEN 0
                         ELSE LET id == CHOOSE x \in S : TRUE
                              IN extra(id) + sum(S \ {id})
           IN sum(DOMAIN tasks)

\* a task worker sends a result for a task back to the worker that dispatched it
task_worker_finish(task_id) ==
    /\ UNCHANGED nonTaskVars
    /\ ~crashed
    /\ task_id \in DOMAIN tasks
    /\ tasks[task_id].results = 0 \/ dup_num < MaxDup
    /\ tasks' = [tasks EXCEPT ![task_id].results = @ + 1, ![task_id].pending = @ + 1]
    /\ UNCHANGED <<task_coroutine_map, task_callbacks, calls, n_calls, current_task_id,
                   last_return, has_onFinish, crashed>>

\* ------------------------------------------------------------------ onFinish
\* the index search of onFinish over the first task_co->count entries of the list
task_index_of(task_co, task_id) ==
    LET found == {i \in 0..(task_co.count - 1) : task_co.list[i] = task_id}
    IN IF found = {} THEN -1
       ELSE CHOOSE i \in found : \A j \in found : i <= j

\* onFinish with SW_TASK_COROUTINE set, once a live TaskCo k was found in the map
onFinish_coroutine(k, task_id, cs, m) ==
    LET task_co == cs[k] IN
    IF task_co.list_null
    THEN LET out == yield_return(k, TRUE, "result",
                                 [cs EXCEPT ![k].value = Res(task_id)], m)
         IN [calls |-> out.calls, map |-> out.map, last |-> out.last,
             resumed |-> TRUE, stored |-> TRUE]
    ELSE LET task_index == task_index_of(task_co, task_id) IN
         IF task_index < 0
         THEN [calls |-> cs, map |-> m, last |-> last_return,
               resumed |-> FALSE, stored |-> FALSE]
         ELSE LET result == add_index(task_co.result, task_index, Res(task_id))
                  cs1 == [cs EXCEPT ![k].result = result]
                  m1 == map_erase(m, task_id)
              IN IF php_swoole_array_length(result) = task_co.count
                 THEN LET out == yield_return(k, TRUE, "result", cs1, m1)
                      IN [calls |-> out.calls, map |-> out.map, last |-> out.last,
                          resumed |-> TRUE, stored |-> TRUE]
                 ELSE [calls |-> cs1, map |-> m1, last |-> last_return,
                       resumed |-> FALSE, stored |-> TRUE]

\* onFinish reads a TaskCo whose method has returned: the stack bytes may
\* still hold the old object, so that the id is not found in the list
\* ("warn") or is found, stored through the stale result pointer and erased
\* ("erase"), or they hold something else and the process faults ("fault")
DanglingOutcomes == {"warn", "erase", "fault"}

onFinish_dangling(task_id, ub) ==
    /\ task_coroutine_map' = IF ub = "erase"
                             THEN map_erase(task_coroutine_map, task_id)
                             ELSE task_coroutine_map
    /\ crashed' = (ub = "fault")
    /\ tasks' = [tasks EXCEPT ![task_id].pending = @ - 1, ![task_id].finished = @ + 1]
    /\ UNCHANGED <<calls, last_return, task_callbacks>>

\* onFinish that hands a result whose callback is gone to the onFinish handler
onFinish_callback_fallback(task_id) ==
    LET mode == tasks[task_id].mode
        found == mode = "callback" /\ task_id \in DOMAIN task_callbacks
        cb == IF found THEN "task_callback"
              ELSE (IF has_onFinish THEN "onFinish" ELSE "nullptr")
    IN /\ tasks' = [tasks EXCEPT
                       ![task_id].pending = @ - 1,
                       ![task_id].finished = @ + 1,
                       ![task_id].warned = @ \/ ~found,
                       ![task_id].cb_runs = IF cb = "task_callback" THEN @ + 1 ELSE @,
                       ![task_id].onFinish_runs = IF cb = "onFinish" THEN @ + 1 ELSE @]
       /\ task_callbacks' = IF found
                            THEN map_erase(task_callbacks, task_id)
                            ELSE task_callbacks
       /\ UNCHANGED <<task_coroutine_map, calls, last_return, crashed>>

\* onFinish that runs the per-task callback and leaves it registered
onFinish_callback_keep(task_id) ==
    LET mode == tasks[task_id].mode
        found == mode = "callback" /\ task_id \in DOMAIN task_callbacks
        cb == IF mode = "callback"
              THEN (IF found THEN "task_callback" ELSE "nullptr")
              ELSE (IF has_onFinish THEN "onFinish" ELSE "nullptr")
    IN /\ tasks' = [tasks EXCEPT
                       ![task_id].pending = @ - 1,
                       ![task_id].finished = @ + 1,
                       ![task_id].warned = @ \/ cb = "nullptr",
                       ![task_id].cb_runs = IF cb = "task_callback" THEN @ + 1 ELSE @,
                       ![task_id].onFinish_runs = IF cb = "onFinish" THEN @ + 1 ELSE @]
       /\ UNCHANGED <<task_callbacks, task_coroutine_map, calls, last_return, crashed>>

\* onFinish without SW_TASK_COROUTINE: the per-task callback or the onFinish handler
onFinish_callback(task_id) ==
    LET mode == tasks[task_id].mode
        found == mode = "callback" /\ task_id \in DOMAIN task_callbacks
        cb == IF mode = "callback"
              THEN (IF found THEN "task_callback" ELSE "nullptr")
              ELSE (IF has_onFinish THEN "onFinish" ELSE "nullptr")
    IN /\ tasks' = [tasks EXCEPT
                       ![task_id].pending = @ - 1,
                       ![task_id].finished = @ + 1,
                       ![task_id].warned = @ \/ cb = "nullptr",
                       ![task_id].cb_runs = IF cb = "task_callback" THEN @ + 1 ELSE @,
                       ![task_id].onFinish_runs = IF cb = "onFinish" THEN @ + 1 ELSE @]
       /\ task_callbacks' = IF cb # "nullptr" /\ found
                            THEN map_erase(task_callbacks, task_id)
                            ELSE task_callbacks
       /\ UNCHANGED <<task_coroutine_map, calls, last_return, crashed>>

\* php_swoole_server_onFinish for one result in flight
php_swoole_server_onFinish(task_id, unpack_ok) ==
    /\ UNCHANGED nonTaskVars
    /\ ~crashed
    /\ task_id \in DOMAIN tasks
    /\ tasks[task_id].pending > 0
    /\ UNCHANGED <<n_calls, current_task_id, has_onFinish>>
    /\ IF ~unpack_ok
       THEN /\ tasks' = [tasks EXCEPT ![task_id].pending = @ - 1]
            /\ UNCHANGED <<task_coroutine_map, task_callbacks, calls, last_return, crashed>>
       ELSE IF tasks[task_id].mode = "coroutine"
            THEN IF task_id \notin DOMAIN task_coroutine_map
                 THEN /\ tasks' = [tasks EXCEPT ![task_id].pending = @ - 1,
                                                 ![task_id].finished = @ + 1,
                                                 ![task_id].warned = TRUE]
                      /\ UNCHANGED <<task_coroutine_map, task_callbacks, calls,
                                     last_return, crashed>>
                 ELSE IF is_alive(calls, task_coroutine_map[task_id])
                      THEN LET out == onFinish_coroutine(task_coroutine_map[task_id],
                                         task_id, calls, task_coroutine_map)
                           IN /\ calls' = out.calls
                              /\ task_coroutine_map' = out.map
                              /\ last_return' = out.last
                              /\ tasks' = [tasks EXCEPT
                                    ![task_id].pending = @ - 1,
                                    ![task_id].finished = @ + 1,
                                    ![task_id].arrived = TRUE,
                                    ![task_id].delivered =
                                        @ \/ (out.resumed /\ tasks[task_id].api = "taskwait")]
                              /\ UNCHANGED <<task_callbacks, crashed>>
                      ELSE \E ub \in DanglingOutcomes : onFinish_dangling(task_id, ub)
            ELSE onFinish_callback(task_id)

\* ---------------------------------------------------------------------- bind
\* TLC computes with 32-bit integers, so the 32-bit quantities of the code are
\* modelled 8 bits wide: UINT32_MAX is 2^8 - 1 and INT32_MIN is -2^7, and a
\* zend_long is any integer beyond them.  The arithmetic is the same modulo 2^w.
UINT32_MAX == 255
INT32_MIN == -128
\* the cast (uint32_t) uid of a zend_long
to_uint32(x) == x % (UINT32_MAX + 1)

Procs == 1..NumProc
\* the uid arguments tried: the ends of the accepted range, the values next to
\* them, zero and small ids
UidArgs == {INT32_MIN - 1, INT32_MIN, -1, 0, 1, 2, UINT32_MAX, UINT32_MAX + 1}

BindIdle == [pc |-> "idle", uid |-> 0, ret |-> "none", raced |-> FALSE]

BindInit ==
    /\ conn_uid = 0
    /\ conn_lock = 0
    /\ binds = [p \in Procs |-> BindIdle]

in_bind(p) == binds[p].pc \in {"lock", "read", "write", "unlock"}

\* PHP_METHOD(swoole_server, bind) from its entry to sw_spinlock: the range
\* check of uid; the connection is live, so get_connection_verify finds it
bind(p, uid) ==
    /\ UNCHANGED <<taskVars, dispatchVars, otherVars>>
    /\ binds[p].pc = "idle"
    /\ binds' = [binds EXCEPT ![p] =
          IF uid > UINT32_MAX \/ uid < INT32_MIN
          THEN [pc |-> "done", uid |-> uid, ret |-> "false", raced |-> FALSE]
          ELSE [pc |-> "lock", uid |-> uid, ret |-> "none",
                raced |-> \E q \in Procs \ {p} : in_bind(q)]]
    /\ UNCHANGED <<conn_uid, conn_lock>>

\* a lock that is taken without waiting for its holder
sw_spinlock_no_wait(p) ==
    /\ UNCHANGED <<taskVars, dispatchVars, otherVars>>
    /\ binds[p].pc = "lock"
    /\ conn_lock' = p
    /\ binds' = [binds EXCEPT ![p].pc = "read"]
    /\ UNCHANGED conn_uid

\* sw_spinlock(&conn->lock): spins until the lock is free, then holds it
sw_spinlock(p) ==
    /\ UNCHANGED <<taskVars, dispatchVars, otherVars>>
    /\ binds[p].pc = "lock"
    /\ conn_lock = 0
    /\ conn_lock' = p
    /\ binds' = [binds EXCEPT ![p].pc = "read"]
    /\ UNCHANGED conn_uid

\* if (conn->uid != 0) RETVAL_FALSE
bind_read(p) ==
    /\ UNCHANGED <<taskVars, dispatchVars, otherVars>>
    /\ binds[p].pc = "read"
    /\ binds' = IF conn_uid # 0
                THEN [binds EXCEPT ![p].pc = "unlock", ![p].ret = "false"]
                ELSE [binds EXCEPT ![p].pc = "write"]
    /\ UNCHANGED <<conn_uid, conn_lock>>

\* conn->uid = (uint32_t) uid; RETVAL_TRUE
bind_write(p) ==
    /\ UNCHANGED <<taskVars, dispatchVars, otherVars>>
    /\ binds[p].pc = "write"
    /\ conn_uid' = to_uint32(binds[p].uid)
    /\ binds' = [binds EXCEPT ![p].pc = "unlock", ![p].ret = "true"]
    /\ UNCHANGED conn_lock

\* sw_spinlock_release(&conn->lock) and the return of bind
sw_spinlock_release(p) ==
    /\ UNCHANGED <<taskVars, dispatchVars, otherVars>>
    /\ binds[p].pc = "unlock"
    /\ conn_lock' = 0
    /\ binds' = [binds EXCEPT ![p].pc = "done"]
    /\ UNCHANGED conn_uid

\* ------------------------------------------------------------- dispatch_func
\* the outcomes a dispatch function hands to the server instead of a worker id
SW_DISPATCH_RESULT_DISCARD_PACKET == -1
SW_DISPATCH_RESULT_CLOSE_CONNECTION == -2
SW_DISPATCH_RESULT_USERFUNC_FALLBACK == -3

\* the conversion of a zend_long to the int the function returns
to_int(x) == ((x - INT32_MIN) % (UINT32_MAX + 1)) + INT32_MIN

\* the values the user function returns: null, a boolean, an integer
\* also two integers below INT32_MIN, which the conversion to int wraps
RetLongs == (-(MaxWorkerNum + 3))..(MaxWorkerNum + 2)
            \cup {-(UINT32_MAX + 1) + 1, -(UINT32_MAX + 1) + 100}
Retvals == {[type |-> "null", val |-> 0]}
           \cup [type : {"bool"}, val : {0, 1}]
           \cup [type : {"long"}, val : RetLongs]
zval_get_long(retval) == retval.val

\* php_swoole_server_dispatch_func: the value returned to the server
php_swoole_server_dispatch_func(worker_num, call_result, retval) ==
    LET worker_id ==
           IF call_result # "SUCCESS"
           THEN -1
           ELSE IF retval.type = "null"
                THEN -1
                ELSE IF zval_get_long(retval) >= worker_num
                     THEN -1
                     ELSE zval_get_long(retval)
    IN to_int(worker_id)

DispatchInit == dispatch = [worker_num |-> 0]

\* the server calls the dispatch function for a connection or packet
\* A pending exception is reported with zend_exception_error(..., E_ERROR), a
\* fatal error that ends the script instead of returning to the server.
dispatch_call(worker_num, call_result, retval, exception) ==
    /\ UNCHANGED <<taskVars, bindVars, otherVars>>
    /\ dispatch' = [worker_num |-> worker_num, call_result |-> call_result,
                    retval |-> retval, exception |-> exception,
                    terminated |-> exception,
                    returned |-> php_swoole_server_dispatch_func(worker_num, call_result,
                                                                 retval)]

\* ----------------------------------------------------------------- heartbeat
NumConn == 2
\* idle times run from 0 to MaxIdle seconds
MaxIdle == 2
\* the idle threshold of the port, in seconds
heartbeat_idle_time == 1

Conns == 1..NumConn

\* a slot of the connection list: session_id is 0 until the slot is used
new_Connection ==
    [session_id |-> 0, protect |-> FALSE, idle |-> 0, closed |-> FALSE, close_force |-> FALSE]

HeartbeatInit ==
    /\ conns = [i \in Conns |-> new_Connection]
    /\ heartbeat = [seq |-> 0, check_interval |-> 1]

\* Server::is_healthy_connection: a protected connection is healthy, any other
\* one is healthy until its idle time exceeds the threshold
is_healthy_connection(conn) == conn.protect \/ conn.idle <= heartbeat_idle_time

\* Server::close(session_id, false) on a connection marked close_force
Server_close(conn) == [conn EXCEPT !.closed = TRUE]

\* Server::foreach_connection visits the connections that are open
is_visited(conn) == ~conn.closed

\* a sweep that does not skip the slots with session_id <= 0
heartbeat_check_any_session(conn, close_connection, ret) ==
    IF is_healthy_connection(conn)
    THEN [conn |-> conn, ret |-> ret]
    ELSE [conn |-> IF close_connection
                   THEN Server_close([conn EXCEPT !.close_force = TRUE])
                   ELSE conn,
          ret |-> Append(ret, conn.session_id)]

\* a sweep that reports the idle connections and closes none
heartbeat_check_report_only(conn, close_connection, ret) ==
    IF conn.session_id <= 0 \/ is_healthy_connection(conn)
    THEN [conn |-> conn, ret |-> ret]
    ELSE [conn |-> conn, ret |-> Append(ret, conn.session_id)]

\* the function heartbeat applies to each connection
heartbeat_check(conn, close_connection, ret) ==
    IF conn.session_id <= 0
    THEN [conn |-> conn, ret |-> ret]
    ELSE IF is_healthy_connection(conn)
         THEN [conn |-> conn, ret |-> ret]
         ELSE [conn |-> IF close_connection
                        THEN Server_close([conn EXCEPT !.close_force = TRUE])
                        ELSE conn,
               ret |-> Append(ret, conn.session_id)]

RECURSIVE foreach_connection(_, _, _, _)
foreach_connection(i, cs, close_connection, ret) ==
    IF i > NumConn
    THEN [conns |-> cs, ret |-> ret]
    ELSE IF is_visited(cs[i])
         THEN LET out == heartbeat_check(cs[i], close_connection, ret)
              IN foreach_connection(i + 1, [cs EXCEPT ![i] = out.conn],
                                    close_connection, out.ret)
         ELSE foreach_connection(i + 1, cs, close_connection, ret)

\* PHP_METHOD(swoole_server, heartbeat)
heartbeat_call(close_connection) ==
    /\ UNCHANGED <<taskVars, bindVars, dispatchVars, signalVars, moreVars>>
    /\ IF heartbeat.check_interval < 1
       THEN /\ heartbeat' = [seq |-> 1 - heartbeat.seq,
                             check_interval |-> heartbeat.check_interval,
                             close_connection |-> close_connection,
                             swept |-> FALSE, returned |-> <<>>]
            /\ UNCHANGED conns
       ELSE LET out == foreach_connection(1, conns, close_connection, <<>>)
            IN /\ conns' = out.conns
               /\ heartbeat' = [seq |-> 1 - heartbeat.seq,
                                check_interval |-> heartbeat.check_interval,
                                close_connection |-> close_connection,
                                swept |-> TRUE, returned |-> out.ret]

\* PHP_METHOD(swoole_server, protect)
protect(i, value) ==
    /\ UNCHANGED <<taskVars, bindVars, dispatchVars, signalVars, moreVars, heartbeat>>
    /\ conns[i].session_id > 0
    /\ ~conns[i].closed
    /\ conns' = [conns EXCEPT ![i].protect = value]

\* a connection is accepted into a free slot and gets its session id
conn_accept(i) ==
    /\ UNCHANGED <<taskVars, bindVars, dispatchVars, signalVars, moreVars, heartbeat>>
    /\ conns[i].session_id = 0
    /\ conns' = [conns EXCEPT ![i].session_id = i]

\* data arrives on a connection: its last-recv time is now
conn_recv(i) ==
    /\ UNCHANGED <<taskVars, bindVars, dispatchVars, signalVars, moreVars, heartbeat>>
    /\ conns[i].session_id > 0
    /\ ~conns[i].closed
    /\ conns[i].idle > 0
    /\ conns' = [conns EXCEPT ![i].idle = 0]

\* a second passes without data on a connection or an unused slot
conn_idle(i) ==
    /\ UNCHANGED <<taskVars, bindVars, dispatchVars, signalVars, moreVars, heartbeat>>
    /\ ~conns[i].closed
    /\ conns[i].idle < MaxIdle
    /\ conns' = [conns EXCEPT ![i].idle = @ + 1]

\* -------------------------------------------------------------------- signal
\* the signal table has SW_SIGNO_MAX entries, here scaled down
SW_SIGNO_MAX == 2

Signos == 0..(SW_SIGNO_MAX - 1)
\* the signal numbers a caller may pass: the valid ones, one too large, a negative one
SignoArgs == Signos \cup {SW_SIGNO_MAX, -1}
\* the user's handler functions, and the null pointer
NumHandlers == 1
HandlerNames == <<"h1", "h2", "h3">>
Handlers == {HandlerNames[j] : j \in 1..NumHandlers}
HandlerArgs == Handlers \cup {"nullptr"}

\* sw_memset_zero(&signals[signo], sizeof(Signal))
zero_Signal == [handler |-> "nullptr", activated |-> FALSE]

\* the kernel's side: the disposition of each signal, the blocked mask of the
\* process, the mask of the signalfd object, whether the reactor polls the
\* signalfd socket, the signals raised and not yet delivered, and whether a
\* default action or a memory fault ended the process
os_init ==
    [sigaction |-> [s \in Signos |-> "SIG_DFL"], blocked |-> {}, fd_mask |-> {},
     fd_events |-> FALSE, pending |-> {}, killed |-> FALSE]

\* swoole_signal_dispatch before its first call.  While it runs, and after it
\* returned, the record says whether a signal reached the process meanwhile
\* (quiet is false then) and, for a quiet run, the signals that had their flag
\* set and a handler at the call (start), the signals whose handler it invoked,
\* in order (invoked), and the flags still set at the return (end_flags).
idle_dispatch ==
    [pc |-> "idle", i |-> 0, ran |-> FALSE, quiet |-> TRUE, start |-> {},
     invoked |-> <<>>, end_flags |-> {}]

\* the record of a run that a signal interrupted
loud_dispatch(d) == [d EXCEPT !.quiet = FALSE, !.start = {}, !.invoked = <<>>]

\* Without a reactor enable_signalfd has no effect, so it is left off then.
SigEnvs == {e \in [enable_signalfd : BOOLEAN, reactor : BOOLEAN] :
               e.enable_signalfd => e.reactor}

SignalInit ==
    /\ signals = [s \in Signos |-> zero_Signal]
    /\ triggered_signals = [s \in Signos |-> FALSE]
    /\ signal_dispatch = FALSE
    /\ os = os_init
    /\ signalfd_mask = {}
    /\ signal_fd = -1
    /\ dispatching = idle_dispatch
    /\ frames = <<>>
    /\ simple_lock = FALSE
    /\ sig_last = [kind |-> "none", signo |-> -1]

\* the next record of what the signal code did last
sig_event(kind, signo, more) == [kind |-> kind, signo |-> signo] @@ more

swoole_signalfd_is_available == signal_fd # -1
swoole_event_is_available == sig_env.reactor
sw_reactor == sig_env.reactor
\* the test that sends swoole_signal_set to the signalfd backend
is_signalfd_backend == sig_env.enable_signalfd /\ swoole_event_is_available

\* the signals the kernel holds back: blocked by the process mask, or blocked
\* while their own handler runs (sigaction without SA_NODEFER)
in_handler == {frames[j].signo : j \in DOMAIN frames}
is_blocked(o, signo) == signo \in o.blocked \/ signo \in in_handler

\* swoole_signal_set(signo, func, restart, mask) with a handler function of
\* the signal code: installs it and returns the previous disposition, SIG_DFL
\* being the null pointer
swoole_signal_set_os(o, signo, func) ==
    [os |-> [o EXCEPT !.sigaction[signo] = func],
     ret |-> IF o.sigaction[signo] = "SIG_DFL" THEN "nullptr" ELSE o.sigaction[signo]]

\* swoole_signalfd_create: false when a signalfd exists or cannot be made
swoole_signalfd_create(o, fd, mask, create_ok) ==
    IF fd # -1
    THEN [ok |-> FALSE, os |-> o, fd |-> fd]
    ELSE IF ~create_ok
         THEN [ok |-> FALSE, os |-> o, fd |-> -1]
         ELSE [ok |-> TRUE, fd |-> 3,
               os |-> [o EXCEPT !.fd_mask = mask, !.blocked = @ \cup mask]]

\* swoole_signalfd_setup(reactor)
swoole_signalfd_setup(o, fd, mask, create_ok, add_ok) ==
    LET made == swoole_signalfd_create(o, fd, mask, create_ok) IN
    IF fd = -1 /\ ~made.ok
    THEN [ok |-> FALSE, os |-> made.os, fd |-> made.fd]
    ELSE IF ~made.os.fd_events /\ ~add_ok
         THEN [ok |-> FALSE, os |-> made.os, fd |-> made.fd]
         ELSE [ok |-> TRUE, os |-> [made.os EXCEPT !.fd_events = TRUE], fd |-> made.fd]

nonSignalVars == <<taskVars, bindVars, dispatchVars, heartbeatVars, moreVars>>

\* main-line code of the process runs: it is alive, no signal handler is on
\* the stack and swoole_signal_dispatch is not in its loop
in_main == ~os.killed /\ frames = <<>> /\ dispatching.pc = "idle"

\* what a call of swoole_signal_set(signo, ...) may have changed for signo
set_changed(signo) ==
    \/ signals'[signo] # signals[signo]
    \/ (signo \in signalfd_mask') # (signo \in signalfd_mask)
    \/ (signo \in os'.blocked) # (signo \in os.blocked)
    \/ (signo \in os'.fd_mask) # (signo \in os.fd_mask)
    \/ os'.sigaction[signo] # os.sigaction[signo]

\* the call before this one unregistered the same signal, nothing came between
is_again(signo, handler) ==
    /\ handler = "nullptr"
    /\ sig_last.kind = "set" /\ sig_last.signo = signo /\ sig_last.unregister

\* swoole_signalfd_set(signo, handler)
swoole_signalfd_set(signo, handler, create_ok, add_ok) ==
    LET unreg == handler = "nullptr" /\ signals[signo].activated
        mask == IF unreg THEN signalfd_mask \ {signo} ELSE signalfd_mask \cup {signo}
        origin_handler == IF unreg THEN "nullptr" ELSE signals[signo].handler
        os1 == IF swoole_signalfd_is_available
               THEN [os EXCEPT !.blocked = mask, !.fd_mask = mask]
               ELSE os
        setup == swoole_signalfd_setup(os1, signal_fd, mask, create_ok, add_ok)
    IN /\ signals' = [signals EXCEPT ![signo] =
                         IF unreg THEN zero_Signal
                         ELSE [handler |-> handler, activated |-> TRUE]]
       /\ signalfd_mask' = mask
       /\ os' = setup.os
       /\ signal_fd' = setup.fd
       /\ sig_last' = sig_event("set", signo,
              [unregister |-> handler = "nullptr", returned |-> origin_handler, setup_ok |-> setup.ok,
               out_of_bounds |-> FALSE,
               again |-> is_again(signo, handler), changed |-> set_changed(signo)])

\* swoole_signal_set(signo, handler, safety) past the backend selection
swoole_signal_set_classic(signo, handler, safety) ==
    LET out == swoole_signal_set_os(os, signo,
                   IF safety THEN "signal_handler_safety" ELSE "signal_handler_simple")
    IN /\ signals' = [signals EXCEPT ![signo] = [handler |-> handler, activated |-> TRUE]]
       /\ os' = out.os
       /\ UNCHANGED <<signalfd_mask, signal_fd>>
       /\ sig_last' = sig_event("set", signo,
              [unregister |-> handler = "nullptr", returned |-> out.ret, setup_ok |-> TRUE,
               out_of_bounds |-> FALSE,
               again |-> is_again(signo, handler), changed |-> set_changed(signo)])

\* signals[signo] with signo outside the table: the write lands in the memory
\* next to the table, or the process faults
OutOfBoundsOutcomes == {"stray_write", "fault"}

swoole_signal_set_out_of_range(signo, handler, ub) ==
    /\ os' = [os EXCEPT !.killed = (ub = "fault")]
    /\ UNCHANGED <<signals, signalfd_mask, signal_fd>>
    /\ sig_last' = sig_event("set", signo,
           [unregister |-> handler = "nullptr", returned |-> "nullptr", setup_ok |-> TRUE,
            out_of_bounds |-> TRUE, again |-> FALSE, changed |-> FALSE])

\* swoole_signal_set(signo, handler, safety)
swoole_signal_set(signo, handler, safety, create_ok, add_ok, ub) ==
    /\ UNCHANGED nonSignalVars
    /\ in_main
    /\ UNCHANGED <<triggered_signals, signal_dispatch, sig_env, dispatching, frames,
                   simple_lock>>
    /\ IF signo \notin Signos
       THEN swoole_signal_set_out_of_range(signo, handler, ub)
       ELSE IF is_signalfd_backend
            THEN swoole_signalfd_set(signo, handler, create_ok, add_ok)
            ELSE swoole_signal_set_classic(signo, handler, safety)

\* a signal_handler_simple that never takes the reactor branch
os_deliver_no_reactor_test(signo, o) ==
    LET handler == o.sigaction[signo] IN
    IF handler = "SIG_DFL"
    THEN /\ os' = [o EXCEPT !.killed = TRUE]
         /\ sig_last' = sig_event("default", signo, <<>>)
         /\ UNCHANGED <<triggered_signals, signal_dispatch, dispatching, frames>>
    ELSE IF handler = "signal_handler_safety"
         THEN /\ triggered_signals' = [triggered_signals EXCEPT ![signo] = TRUE]
              /\ signal_dispatch' = TRUE
              /\ os' = o
              /\ sig_last' = sig_event("flag", signo, [context |-> "signal"])
              /\ dispatching' = IF dispatching.pc = "idle" THEN dispatching
                                ELSE loud_dispatch(dispatching)
              /\ UNCHANGED frames
         ELSE /\ frames' = Append(frames, [signo |-> signo, pc |-> "check"])
              /\ os' = o
              /\ dispatching' = IF dispatching.pc = "idle" THEN dispatching
                                ELSE loud_dispatch(dispatching)
              /\ UNCHANGED <<triggered_signals, signal_dispatch, sig_last>>

\* the kernel hands signal signo to the process, o being its state by then
os_deliver(signo, o) ==
    LET handler == o.sigaction[signo] IN
    IF handler = "SIG_DFL"
    THEN /\ os' = [o EXCEPT !.killed = TRUE]
         /\ sig_last' = sig_event("default", signo, <<>>)
         /\ UNCHANGED <<triggered_signals, signal_dispatch, dispatching, frames>>
    ELSE IF handler = "signal_handler_safety" \/ sw_reactor
         THEN \* signal_handler_safety, also when called by signal_handler_simple
              /\ triggered_signals' = [triggered_signals EXCEPT ![signo] = TRUE]
              /\ signal_dispatch' = TRUE
              /\ os' = o
              /\ sig_last' = sig_event("flag", signo, [context |-> "signal"])
              /\ dispatching' = IF dispatching.pc = "idle" THEN dispatching
                                ELSE loud_dispatch(dispatching)
              /\ UNCHANGED frames
         ELSE \* signal_handler_simple without a reactor is entered
              /\ frames' = Append(frames, [signo |-> signo, pc |-> "check"])
              /\ os' = o
              /\ dispatching' = IF dispatching.pc = "idle" THEN dispatching
                                ELSE loud_dispatch(dispatching)
              /\ UNCHANGED <<triggered_signals, signal_dispatch, sig_last>>

\* a signal is raised for the process
os_raise(signo) ==
    /\ UNCHANGED nonSignalVars
    /\ ~os.killed
    /\ UNCHANGED <<signals, signalfd_mask, signal_fd, sig_env, simple_lock>>
    /\ IF is_blocked(os, signo)
       THEN /\ os' = [os EXCEPT !.pending = @ \cup {signo}]
            /\ UNCHANGED <<triggered_signals, signal_dispatch, dispatching, frames,
                           sig_last>>
       ELSE os_deliver(signo, os)

\* a pending signal is no longer blocked: the kernel delivers it
os_unblocked(signo) ==
    /\ UNCHANGED nonSignalVars
    /\ ~os.killed
    /\ signo \in os.pending
    /\ ~is_blocked(os, signo)
    /\ UNCHANGED <<signals, signalfd_mask, signal_fd, sig_env, simple_lock>>
    /\ os_deliver(signo, [os EXCEPT !.pending = @ \ {signo}])

top_frame == frames[Len(frames)]
pop_frame == SubSeq(frames, 1, Len(frames) - 1)

\* a swoole_signal_callback that calls whatever the table entry holds
swoole_signal_callback_no_check(signo, context) ==
    sig_event("invoke", signo, [context |-> context, handler |-> signals[signo].handler])

\* swoole_signal_callback(signo): what it does with the table entry
swoole_signal_callback(signo, context) ==
    IF signals[signo].handler = "nullptr"
    THEN sig_event("warn", signo, [context |-> context])
    ELSE sig_event("invoke", signo, [context |-> context, handler |-> signals[signo].handler])

\* signal_handler_simple without a reactor: the _lock test, and the call
signal_handler_simple ==
    /\ UNCHANGED nonSignalVars
    /\ ~os.killed
    /\ frames # <<>>
    /\ top_frame.pc = "check"
    /\ UNCHANGED <<signals, triggered_signals, signal_dispatch, os, signalfd_mask,
                   signal_fd, sig_env, dispatching>>
    /\ IF simple_lock
       THEN /\ frames' = pop_frame
            /\ sig_last' = sig_event("discard", top_frame.signo, [context |-> "signal"])
            /\ UNCHANGED simple_lock
       ELSE LET ev == swoole_signal_callback(top_frame.signo, "signal") IN
            /\ sig_last' = ev
            /\ IF ev.kind = "invoke"
               THEN /\ simple_lock' = TRUE
                    /\ frames' = [frames EXCEPT ![Len(frames)].pc = "running"]
               ELSE /\ simple_lock' = FALSE
                    /\ frames' = pop_frame

\* the user's handler returns into signal_handler_simple, which drops _lock
signal_handler_simple_return ==
    /\ UNCHANGED nonSignalVars
    /\ ~os.killed
    /\ frames # <<>>
    /\ top_frame.pc = "running"
    /\ simple_lock' = FALSE
    /\ frames' = pop_frame
    /\ UNCHANGED <<signals, triggered_signals, signal_dispatch, os, signalfd_mask,
                   signal_fd, sig_env, dispatching, sig_last>>

triggered_set == {s \in Signos : triggered_signals[s]}

\* swoole_signal_dispatch is called: the test of SwooleG.signal_dispatch
swoole_signal_dispatch ==
    /\ UNCHANGED nonSignalVars
    /\ in_main
    /\ UNCHANGED <<signals, triggered_signals, signal_dispatch, os, signalfd_mask,
                   signal_fd, sig_env, frames, simple_lock, sig_last>>
    /\ LET start == {s \in triggered_set : signals[s].handler # "nullptr"} IN
       IF ~signal_dispatch
       THEN dispatching' = [pc |-> "idle", i |-> 0, ran |-> TRUE, quiet |-> TRUE,
                            start |-> start, invoked |-> <<>>,
                            end_flags |-> triggered_set]
       ELSE dispatching' = [pc |-> "loop", i |-> 0, ran |-> TRUE, quiet |-> TRUE,
                            start |-> start, invoked |-> <<>>, end_flags |-> {}]

\* one pass of the loop up to the call of swoole_signal_callback(i)
swoole_signal_dispatch_loop ==
    /\ UNCHANGED nonSignalVars
    /\ ~os.killed /\ frames = <<>>
    /\ dispatching.pc = "loop"
    /\ dispatching.i < SW_SIGNO_MAX
    /\ UNCHANGED <<signals, triggered_signals, signal_dispatch, os, signalfd_mask,
                   signal_fd, sig_env, frames, simple_lock>>
    /\ LET i == dispatching.i IN
       IF triggered_signals[i]
       THEN LET ev == swoole_signal_callback(i, "dispatch") IN
            /\ sig_last' = ev
            /\ dispatching' = [dispatching EXCEPT
                   !.pc = "clear",
                   !.invoked = IF ev.kind = "invoke" /\ dispatching.quiet
                               THEN Append(@, i) ELSE @]
       ELSE /\ dispatching' = [dispatching EXCEPT !.i = i + 1]
            /\ UNCHANGED sig_last

\* triggered_signals[i] = false after the callback returned
swoole_signal_dispatch_clear ==
    /\ UNCHANGED nonSignalVars
    /\ ~os.killed /\ frames = <<>>
    /\ dispatching.pc = "clear"
    /\ triggered_signals' = [triggered_signals EXCEPT ![dispatching.i] = FALSE]
    /\ dispatching' = [dispatching EXCEPT !.pc = "loop", !.i = @ + 1]
    /\ UNCHANGED <<signals, signal_dispatch, os, signalfd_mask, signal_fd, sig_env,
                   frames, simple_lock, sig_last>>

\* SwooleG.signal_dispatch = false after the loop, and the return
swoole_signal_dispatch_end ==
    /\ UNCHANGED nonSignalVars
    /\ ~os.killed /\ frames = <<>>
    /\ dispatching.pc = "loop"
    /\ dispatching.i = SW_SIGNO_MAX
    /\ signal_dispatch' = FALSE
    /\ dispatching' = [dispatching EXCEPT
           !.pc = "idle", !.i = 0,
           !.end_flags = IF dispatching.quiet THEN triggered_set ELSE {}]
    /\ UNCHANGED <<signals, triggered_signals, os, signalfd_mask, signal_fd, sig_env,
                   frames, simple_lock, sig_last>>

\* swoole_signalfd_event_callback: the reactor reads one signal from the signalfd
swoole_signalfd_event_callback(signo) ==
    /\ UNCHANGED nonSignalVars
    /\ in_main
    /\ swoole_signalfd_is_available
    /\ os.fd_events
    /\ signo \in os.pending \cap os.fd_mask
    /\ os' = [os EXCEPT !.pending = @ \ {signo}]
    /\ sig_last' = IF signals[signo].activated
                   THEN swoole_signal_callback(signo, "signalfd")
                   ELSE sig_event("skip", signo, [context |-> "signalfd"])
    /\ UNCHANGED <<signals, triggered_signals, signal_dispatch, signalfd_mask, signal_fd,
                   sig_env, dispatching, frames, simple_lock>>

\* ------------------------------------------------------------------ send_yield
\* number of coroutines that send, and of sessions they send to
NumSender == 3
NumSession == 2
Senders == 1..NumSender
Sessions == 1..NumSession
\* what Server::send answers to the send retried after a resume
SendOutcomes == {"ok", "yield", "fail"}

idle_sender == [pc |-> "idle", session_id |-> 0, ret |-> FALSE, last_error |-> "none"]
\* the log of a handler's run, kept until the next step of a sender
no_drain == [kind |-> "none", session_id |-> 0, start |-> <<>>, resumed |-> <<>>,
             in_order |-> TRUE]

SendInit ==
    /\ send_coroutine_map = [s \in {} |-> <<>>]
    /\ senders = [co \in Senders |-> idle_sender]
    /\ send_server = [enable_coroutine |-> TRUE, send_yield |-> TRUE, closed |-> {}]
    /\ arrival = {}
    /\ drained = no_drain

\* the coroutines suspended in send_yield on a session
waiting_on(snd, session_id) ==
    {co \in Senders : snd[co].pc = "waiting" /\ snd[co].session_id = session_id}
\* co starts to wait behind every coroutine that waits on the session
arrive(arr, snd, session_id, co) ==
    arr \cup {<<x, co>> : x \in waiting_on(snd, session_id) \ {co}}
leave(arr, co) == {p \in arr : p[1] # co /\ p[2] # co}
is_earliest(arr, co) == ~\E p \in arr : p[2] = co

\* a push that puts the coroutine at the head of the list
co_list_push_front(map, session_id, co) ==
    IF session_id \in DOMAIN map
    THEN [map EXCEPT ![session_id] = <<co>> \o @]
    ELSE map_set(map, session_id, <<co>>)

\* the list of the session, created when the map has none; co_list->push_back(co)
co_list_push(map, session_id, co) ==
    IF session_id \in DOMAIN map
    THEN [map EXCEPT ![session_id] = Append(@, co)]
    ELSE map_set(map, session_id, <<co>>)

\* a timeout that leaves the coroutine in its list
co_list_erase_skipped(list, co) == list

\* co_list->erase(iter)
co_list_erase(list, co) == SelectSeq(list, LAMBDA x : x # co)

\* Server::send on a session that is closing fails and leaves the last error
Server_send(closed, outcome) == IF closed THEN "fail_keep" ELSE outcome

\* yield_ex returned true in co: the send is retried, and the loop goes round
\* when it is held back again. st carries map, senders, arrival and the log.
send_yield_resumed(st, session_id, co, outcome, error) ==
    LET answer == Server_send(session_id \in send_server.closed, outcome)
        left == leave(st.arrival, co)
        log == [st EXCEPT !.resumed = Append(@, co),
                          !.in_order = @ /\ is_earliest(st.arrival, co)]
    IN  IF answer = "yield" /\ send_server.send_yield
        THEN [log EXCEPT !.map = co_list_push(st.map, session_id, co),
                         !.arrival = arrive(left, st.senders, session_id, co)]
        ELSE [log EXCEPT
                 !.arrival = left,
                 !.senders[co] = [pc |-> "done", session_id |-> session_id,
                                  ret |-> (answer = "ok"),
                                  last_error |-> IF answer = "ok" THEN "none"
                                                 ELSE IF answer = "fail_keep" THEN error
                                                 ELSE "send_failed"]]

\* while (!co_list->empty()) { co = front(); pop_front(); co->resume(); }
RECURSIVE resume_all(_, _, _, _, _)
resume_all(st, session_id, co_list, outcomes, error) ==
    IF co_list = <<>> THEN st
    ELSE resume_all(send_yield_resumed(st, session_id, Head(co_list),
                                       outcomes[Head(co_list)], error),
                    session_id, Tail(co_list), outcomes, error)

\* the handler's find, erase and loop over the list of the session
wake_session(kind, session_id, outcomes, error) ==
    LET co_list == send_coroutine_map[session_id]
        st == resume_all([map |-> map_erase(send_coroutine_map, session_id),
                          senders |-> senders, arrival |-> arrival,
                          resumed |-> <<>>, in_order |-> TRUE],
                         session_id, co_list, outcomes, error)
    IN  /\ send_coroutine_map' = st.map
        /\ senders' = st.senders
        /\ arrival' = st.arrival
        /\ drained' = [kind |-> kind, session_id |-> session_id, start |-> co_list,
                       resumed |-> st.resumed, in_order |-> st.in_order]

\* send() was held back: php_swoole_server_send_yield up to its yield
php_swoole_server_send_yield(co, session_id, length) ==
    /\ senders[co].pc = "idle"
    /\ session_id \notin send_server.closed
    /\ IF length = 0
       THEN /\ senders' = [senders EXCEPT ![co] =
                              [pc |-> "done", session_id |-> session_id,
                               ret |-> FALSE, last_error |-> "none"]]
            /\ UNCHANGED <<send_coroutine_map, arrival>>
       ELSE /\ send_coroutine_map' = co_list_push(send_coroutine_map, session_id, co)
            /\ arrival' = arrive(arrival, senders, session_id, co)
            /\ senders' = [senders EXCEPT ![co] =
                              [pc |-> "waiting", session_id |-> session_id,
                               ret |-> FALSE, last_error |-> "none"]]
    /\ drained' = no_drain
    /\ UNCHANGED send_server
    /\ UNCHANGED nonSendVars

\* yield_ex returned false (timeout or cancel): the coroutine leaves its list
send_yield_timeout(co) ==
    /\ senders[co].pc = "waiting"
    /\ senders[co].session_id \in DOMAIN send_coroutine_map
    /\ send_coroutine_map' = [send_coroutine_map EXCEPT ![senders[co].session_id] =
                                 co_list_erase(@, co)]
    /\ arrival' = leave(arrival, co)
    /\ senders' = [senders EXCEPT ![co].pc = "done", ![co].ret = FALSE,
                                  ![co].last_error = "timeout"]
    /\ drained' = no_drain
    /\ UNCHANGED send_server
    /\ UNCHANGED nonSendVars

\* the send call returned to its caller, which may send again
send_return(co) ==
    /\ senders[co].pc = "done"
    /\ senders' = [senders EXCEPT ![co] = idle_sender]
    /\ drained' = no_drain
    /\ UNCHANGED <<send_coroutine_map, send_server, arrival>>
    /\ UNCHANGED nonSendVars

php_swoole_server_onBufferEmpty(session_id, outcomes) ==
    /\ session_id \notin send_server.closed
    /\ send_server.send_yield
    /\ session_id \in DOMAIN send_coroutine_map
    /\ wake_session("empty", session_id, outcomes, "none")
    /\ UNCHANGED send_server
    /\ UNCHANGED nonSendVars

php_swoole_server_onClose(session_id) ==
    /\ session_id \notin send_server.closed
    /\ send_server' = [send_server EXCEPT !.closed = @ \cup {session_id}]
    /\ IF /\ send_server.enable_coroutine /\ send_server.send_yield
          /\ session_id \in DOMAIN send_coroutine_map
       THEN wake_session("close", session_id, [co \in Senders |-> "fail"], "ECONNRESET")
       ELSE /\ drained' = [no_drain EXCEPT !.kind = "close", !.session_id = session_id]
            /\ UNCHANGED <<send_coroutine_map, senders, arrival>>
    /\ UNCHANGED nonSendVars

\* ---------------------------------------------------- start and the commands
\* number of coroutines that call command()
NumCmdCo == 1
CmdCos == 1..NumCmdCo
CommandNames == {"a", "b"}
\* Server::Command::ProcessType bits an accepted-process mask is made of
ProcessTypes == {"REACTOR_THREAD", "EVENT_WORKER", "TASK_WORKER"}
ProcessMasks == (SUBSET ProcessTypes) \ {{}}

\* reply says whether the reply callback ran before the caller suspended
\* ("early") or after ("late"), resumes how often the callback resumed it
idle_cmd == [pc |-> "idle", ret |-> "none", reply |-> "none", resumes |-> 0]
unstarted == [started |-> FALSE, shutdown |-> FALSE, register_callback |-> 0,
              on_before_start |-> 0, fatal |-> FALSE]
\* the server a worker thread finds: started by the main thread
running == [unstarted EXCEPT !.started = TRUE, !.register_callback = 1,
                             !.on_before_start = 1]
main_env == [reactor |-> FALSE, worker_thread |-> FALSE]

CmdInit ==
    /\ server_state = unstarted
    /\ start_env = main_env
    /\ commands = [n \in {} |-> {}]
    /\ command_callbacks = <<>>
    /\ cmd_co = [co \in CmdCos |-> idle_cmd]
    /\ cmd_last = [seq |-> 0, op |-> "none"]

cmd_call(op, more) == [seq |-> 1 - cmd_last.seq, op |-> op] @@ more

\* a start that goes on although the server is started
start_rejected_unless_started == server_state.shutdown \/ start_env.reactor

\* the three tests of start that end it with a warning and false
start_rejected == server_state.started \/ server_state.shutdown \/ start_env.reactor

\* PHP_METHOD(swoole_server, start), up to the server running
start(start_ok) ==
    /\ ~server_state.fatal
    /\ IF start_env.worker_thread
       THEN /\ cmd_last' = cmd_call("start", [returned |-> TRUE, worker_fn |-> TRUE])
            /\ UNCHANGED server_state
       ELSE IF start_rejected
       THEN /\ cmd_last' = cmd_call("start", [returned |-> FALSE, worker_fn |-> FALSE])
            /\ UNCHANGED server_state
       ELSE /\ server_state' = [server_state EXCEPT
                                   !.register_callback = @ + 1,
                                   !.on_before_start = @ + 1,
                                   !.started = start_ok,
                                   !.fatal = ~start_ok]
            /\ cmd_last' = cmd_call("start", [returned |-> start_ok, worker_fn |-> FALSE])
    /\ UNCHANGED <<start_env, commands, command_callbacks, cmd_co>>
    /\ UNCHANGED nonCmdVars

\* the running server shuts down
Server_shutdown ==
    /\ server_state.started
    /\ server_state' = [server_state EXCEPT !.started = FALSE, !.shutdown = TRUE]
    /\ UNCHANGED <<start_env, commands, command_callbacks, cmd_co, cmd_last>>
    /\ UNCHANGED nonCmdVars

\* an addCommand that lets every mask through
addCommand_rejected_never(accepted_process_types) == FALSE

\* accepted_process_types & Server::Command::REACTOR_THREAD
addCommand_rejected(accepted_process_types) == "REACTOR_THREAD" \in accepted_process_types

\* Server::add_command refuses a name that is in the table
Server_add_command(name) == name \notin DOMAIN commands

\* PHP_METHOD(swoole_server, addCommand)
addCommand(name, accepted_process_types, zfn_ok) ==
    /\ ~server_state.fatal
    /\ LET ok == /\ ~server_state.started
                 /\ ~addCommand_rejected(accepted_process_types)
                 /\ zfn_ok
                 /\ Server_add_command(name)
       IN  /\ commands' = IF ok THEN map_set(commands, name, accepted_process_types)
                          ELSE commands
           /\ command_callbacks' = IF ok THEN Append(command_callbacks, name)
                                   ELSE command_callbacks
           /\ cmd_last' = cmd_call("addCommand",
                                   [returned |-> ok, types |-> accepted_process_types])
    /\ UNCHANGED <<server_state, start_env, cmd_co>>
    /\ UNCHANGED nonCmdVars

\* a reply callback that never tells the caller not to yield
command_callback_resume_only(is_suspending) ==
    [resume |-> is_suspending, donot_yield |-> FALSE]

\* the reply callback of command(): it resumes a caller that is suspended and
\* sets donot_yield for one that is not
command_callback(is_suspending) ==
    [resume |-> is_suspending, donot_yield |-> ~is_suspending]

\* PHP_METHOD(swoole_server, command), up to its return or its yield; replied
\* says that Server::command ran the reply callback before it returned
command(co, encode_ok, accepted, replied) ==
    /\ ~server_state.fatal
    /\ cmd_co[co].pc = "idle"
    /\ cmd_co' = [cmd_co EXCEPT ![co] =
                     IF ~server_state.started \/ ~encode_ok \/ ~accepted
                     THEN [idle_cmd EXCEPT !.pc = "done", !.ret = "false"]
                     ELSE LET donot_yield == replied /\ command_callback(FALSE).donot_yield
                              reply == IF replied THEN "early" ELSE "none"
                          IN  IF donot_yield
                              THEN [idle_cmd EXCEPT !.pc = "done", !.ret = "reply",
                                                    !.reply = reply]
                              ELSE [idle_cmd EXCEPT !.pc = "suspended", !.reply = reply]]
    /\ UNCHANGED <<server_state, start_env, commands, command_callbacks, cmd_last>>
    /\ UNCHANGED nonCmdVars

\* the reply of the target process reaches the callback of command()
command_reply(co, decode_ok) ==
    /\ cmd_co[co].pc = "suspended"
    /\ cmd_co[co].reply = "none"
    /\ LET cb == command_callback(cmd_co[co].pc = "suspended") IN
       cmd_co' = [cmd_co EXCEPT
                     ![co].ret = IF decode_ok THEN "reply" ELSE "false",
                     ![co].reply = "late",
                     ![co].pc = IF cb.resume THEN "done" ELSE @,
                     ![co].resumes = IF cb.resume THEN @ + 1 ELSE @]
    /\ UNCHANGED <<server_state, start_env, commands, command_callbacks, cmd_last>>
    /\ UNCHANGED nonCmdVars

\* command() returned to its caller
command_return(co) ==
    /\ cmd_co[co].pc = "done"
    /\ cmd_co' = [cmd_co EXCEPT ![co] = idle_cmd]
    /\ UNCHANGED <<server_state, start_env, commands, command_callbacks, cmd_last>>
    /\ UNCHANGED nonCmdVars

\* ------------------------------------------------------- Task::pack, unpack
\* longest string payload, largest integer payload, bytes an EventData holds inline
MaxStrLen == 4
MaxLong == 12
InlineMax == 3
\* the bytes strings are made of: enough to spell a serialized integer
Bytes == {"i", ":", "1", ";"}

RECURSIVE strings_upto(_)
strings_upto(n) ==
    IF n = 0 THEN {<<>>}
    ELSE LET shorter == strings_upto(n - 1)
         IN  shorter \cup {Append(str, b) : str \in {x \in shorter : Len(x) = n - 1},
                                            b \in Bytes}

\* a zval: its type and its value written as bytes
zval_string(str) == [type |-> "string", val |-> str]
zval_false == [type |-> "false", val |-> <<>>]
DigitChars == <<"0", "1", "2", "3", "4", "5", "6", "7", "8", "9">>
RECURSIVE to_digits(_)
to_digits(n) ==
    IF n < 10 THEN <<DigitChars[n + 1]>>
    ELSE Append(to_digits(n \div 10), DigitChars[(n % 10) + 1])
zval_long(n) == [type |-> "long", val |-> to_digits(n)]
zval_bool(b) == [type |-> "bool", val |-> IF b THEN <<"1">> ELSE <<"0">>]
zval_null == [type |-> "null", val |-> <<>>]

Payloads ==
    {zval_string(str) : str \in strings_upto(MaxStrLen)}
        \cup {zval_long(n) : n \in 0..MaxLong}
        \cup {zval_bool(b) : b \in BOOLEAN} \cup {zval_null}

\* php_var_serialize of a value that is no string
php_var_serialize(z) ==
    IF z.type = "long" THEN <<"i", ":">> \o z.val \o <<";">>
    ELSE IF z.type = "bool" THEN <<"b", ":">> \o z.val \o <<";">>
    ELSE <<"N", ";">>

is_digits(str) ==
    /\ Len(str) > 0
    /\ \A j \in DOMAIN str : \E d \in DOMAIN DigitChars : DigitChars[d] = str[j]
    /\ Len(str) > 1 => str[1] # "0"

\* php_var_unserialize: the value, or false when the bytes are no serialization
php_var_unserialize(str) ==
    IF str = <<"N", ";">> THEN zval_null
    ELSE IF Len(str) >= 4 /\ str[2] = ":" /\ str[Len(str)] = ";"
    THEN LET body == SubSeq(str, 3, Len(str) - 1)
         IN  IF str[1] = "i" /\ is_digits(body) THEN [type |-> "long", val |-> body]
             ELSE IF str[1] = "b" /\ body \in {<<"0">>, <<"1">>}
             THEN [type |-> "bool", val |-> body]
             ELSE zval_false
    ELSE zval_false

no_EventData == [fd |-> -1, len |-> 0, ext_flags |-> {}, data |-> <<>>, tmpfile |-> FALSE]

\* Server::task_pack: a fresh header, the bytes inline or in a temp file
Server_task_pack(data, tmpfile_ok) ==
    IF Len(data) <= InlineMax
    THEN [ok |-> TRUE, tmpfile |-> FALSE,
          ev |-> [fd |-> 0, len |-> Len(data), ext_flags |-> {}, data |-> data]]
    ELSE IF tmpfile_ok
    THEN [ok |-> TRUE, tmpfile |-> TRUE,
          ev |-> [fd |-> 0, len |-> 1, ext_flags |-> {"SW_TASK_TMPFILE"},
                    data |-> <<"tmp">>]]
    ELSE [ok |-> FALSE, tmpfile |-> FALSE,
          ev |-> [fd |-> 0, len |-> 0, ext_flags |-> {}, data |-> <<>>]]

\* Server::task_unpack: the bytes of the packet, read back from the temp file
Server_task_unpack(ev, files) ==
    IF "SW_TASK_TMPFILE" \in ev.ext_flags
    THEN IF ev.data \in DOMAIN files
         THEN [ok |-> TRUE, data |-> files[ev.data]]
         ELSE [ok |-> FALSE, data |-> <<>>]
    ELSE [ok |-> TRUE, data |-> ev.data]

\* a php_swoole_server_task_pack that never marks the data as serialized
php_swoole_server_task_pack_unmarked(zdata, tmpfile_ok) ==
    LET serialized == zdata.type # "string"
        task_data == IF serialized THEN php_var_serialize(zdata) ELSE zdata.val
        packed == Server_task_pack(task_data, tmpfile_ok)
    IN  [ev |-> IF packed.ok THEN packed.ev
                  ELSE [packed.ev EXCEPT !.fd = -1, !.len = 0],
         file |-> IF packed.tmpfile THEN task_data ELSE <<"none">>]

\* php_swoole_server_task_pack: the EventData, and the temp file it wrote
php_swoole_server_task_pack(zdata, tmpfile_ok) ==
    LET serialized == zdata.type # "string"
        task_data == IF serialized THEN php_var_serialize(zdata) ELSE zdata.val
        packed == Server_task_pack(task_data, tmpfile_ok)
        ev == IF packed.ok THEN packed.ev
                ELSE [packed.ev EXCEPT !.fd = -1, !.len = 0]
    IN  [ev |-> IF serialized
                  THEN [ev EXCEPT !.ext_flags = @ \cup {"SW_TASK_SERIALIZE"}]
                  ELSE ev,
         file |-> IF packed.tmpfile THEN task_data ELSE <<"none">>]

\* php_swoole_server_task_unpack: whether it succeeded, and the zval it made
php_swoole_server_task_unpack(ev, files) ==
    LET packet == Server_task_unpack(ev, files)
    IN  IF ~packet.ok THEN [ok |-> FALSE, zresult |-> zval_false]
        ELSE IF "SW_TASK_SERIALIZE" \in ev.ext_flags
        THEN LET z == php_var_unserialize(packet.data)
             IN  [ok |-> z # zval_false, zresult |-> z]
        ELSE [ok |-> TRUE, zresult |-> zval_string(packet.data)]

PackInit ==
    /\ task_buf = [pc |-> "input", zdata |-> zval_null, buf |-> no_EventData,
                   return_value |-> zval_false]
    /\ tmpfiles = [f \in {} |-> <<>>]

\* PHP_METHOD(swoole_server_task, pack)
Task_pack(tmpfile_ok) ==
    /\ task_buf.pc = "input"
    /\ LET packed == php_swoole_server_task_pack(task_buf.zdata, tmpfile_ok)
       IN  IF packed.ev.fd < 0
           THEN /\ task_buf' = [task_buf EXCEPT !.pc = "pack_failed"]
                /\ UNCHANGED tmpfiles
           ELSE /\ task_buf' = [task_buf EXCEPT
                                   !.pc = "packed",
                                   !.buf = [packed.ev EXCEPT !.ext_flags =
                                               @ \cup {"SW_TASK_NONBLOCK", "SW_TASK_NOREPLY"}]]
                /\ tmpfiles' = IF packed.file = <<"none">> THEN tmpfiles
                               ELSE map_set(tmpfiles, packed.ev.data, packed.file)
    /\ UNCHANGED nonPackVars

\* PHP_METHOD(swoole_server_task, unpack) on the string pack returned
Task_unpack ==
    /\ task_buf.pc = "packed"
    /\ LET unpacked == php_swoole_server_task_unpack(task_buf.buf, tmpfiles)
       IN  task_buf' = [task_buf EXCEPT
                           !.pc = "unpacked",
                           !.return_value = IF unpacked.ok THEN unpacked.zresult
                                            ELSE zval_false]
    /\ tmpfiles' = IF "SW_TASK_TMPFILE" \in task_buf.buf.ext_flags
                   THEN map_erase(tmpfiles, task_buf.buf.data)
                   ELSE tmpfiles
    /\ UNCHANGED nonPackVars

\* ------------------------------------------------------------ the task worker
\* number of tasks sent to the task workers, most results one onTask sends
NumWorkerTask == 3
MaxFinish == 2
WorkerTaskIds == 1..NumWorkerTask

\* sw_atomic_fetch_sub and sw_atomic_fetch_add on the unsigned counter
sw_atomic_fetch_sub(value, n) == (value - n) % (UINT32_MAX + 1)
sw_atomic_fetch_add(value, n) == (value + n) % (UINT32_MAX + 1)

unsent_task == [pc |-> "unsent", decrements |-> 0]

WorkerInit ==
    /\ tasking_num = 0
    /\ worker_tasks = [id \in WorkerTaskIds |-> unsent_task]

\* a task is sent to a task worker and counted as in flight
Server_task(id) ==
    /\ worker_tasks[id].pc = "unsent"
    /\ tasking_num' = sw_atomic_fetch_add(tasking_num, 1)
    /\ worker_tasks' = [worker_tasks EXCEPT ![id].pc = "sent"]
    /\ UNCHANGED nonWorkerVars

\* an onTask that counts the task only once it has unpacked its payload
onTask_counts_after_unpack(value, unpack_ok, call_ok, retval_null, finishes) ==
    [tasking_num |-> IF unpack_ok THEN sw_atomic_fetch_sub(value, 1) ELSE value,
     decrements |-> IF unpack_ok THEN 1 ELSE 0,
     ret |-> IF unpack_ok THEN "SW_OK" ELSE "SW_ERR",
     finishes |-> IF ~unpack_ok THEN 0
                  ELSE (IF call_ok THEN finishes ELSE 0)
                       + (IF call_ok /\ ~retval_null THEN 1 ELSE 0)]

\* php_swoole_server_onTask: the counter, what it returns, the results it sends.
\* The handler may have called finish itself before it returned or failed.
onTask_counts(value, unpack_ok, call_ok, retval_null, finishes) ==
    [tasking_num |-> sw_atomic_fetch_sub(value, 1),
     decrements |-> 1,
     ret |-> IF unpack_ok THEN "SW_OK" ELSE "SW_ERR",
     finishes |-> IF ~unpack_ok THEN 0
                  ELSE (IF call_ok THEN finishes ELSE 0)
                       + (IF call_ok /\ ~retval_null THEN 1 ELSE 0)]

php_swoole_server_onTask(id, unpack_ok, call_ok, retval_null, finishes) ==
    /\ worker_tasks[id].pc = "sent"
    /\ LET did == onTask_counts(tasking_num, unpack_ok, call_ok, retval_null, finishes)
       IN  /\ tasking_num' = did.tasking_num
           /\ worker_tasks' = [worker_tasks EXCEPT ![id] =
                                  [pc |-> "handled",
                                   decrements |-> worker_tasks[id].decrements + did.decrements,
                                   ret |-> did.ret, call_ok |-> unpack_ok /\ call_ok,
                                   finishes |-> did.finishes]]
    /\ UNCHANGED nonWorkerVars

\* --------------------------------------------------------------------- set()
\* number of CPUs of the machine, longest cpu_affinity_ignore list
SW_CPU_NUM == 3
MaxIgnore == 3
SW_MAX(a, b) == IF a > b THEN a ELSE b
SW_MIN(a, b) == IF a < b THEN a ELSE b

\* the values worker_num is set to, and the entries of an ignore list
WorkerNumArgs == {-1, 0, 1, 2, UINT32_MAX, UINT32_MAX + 1}
CpuArgs == 0..SW_CPU_NUM
RECURSIVE lists_upto(_)
lists_upto(n) ==
    IF n = 0 THEN {<<>>}
    ELSE LET shorter == lists_upto(n - 1)
         IN  shorter \cup {Append(l, c) : l \in {x \in shorter : Len(x) = n - 1},
                                          c \in CpuArgs}
IgnoreLists == lists_upto(MaxIgnore)
\* the option arrays passed to set()
SetArgs ==
    {[worker_num |-> v] : v \in WorkerNumArgs}
        \cup {[cpu_affinity_ignore |-> l] : l \in IgnoreLists}
        \cup {[worker_num |-> v, cpu_affinity_ignore |-> l] :
                 v \in {1}, l \in {x \in IgnoreLists : Len(x) <= 1}}

\* Server::DISPATCH_FDMOD and Server::DISPATCH_IPMOD, and the largest dispatch_mode
DISPATCH_FDMOD == 2
DISPATCH_IPMOD == 4
UINT8_MAX == 255
\* SwooleG.enable_coroutine, the default of the enable_coroutine option
SwooleG_enable_coroutine == TRUE
\* the values of the dispatch_mode option
DispatchModeArgs == {1, DISPATCH_FDMOD, DISPATCH_IPMOD}
\* the option arrays with enable_coroutine, dispatch_mode and send_yield
YieldSetArgs ==
    {[dispatch_mode |-> d] : d \in DispatchModeArgs}
        \cup {[enable_coroutine |-> e] : e \in BOOLEAN}
        \cup {[send_yield |-> y] : y \in BOOLEAN}
        \cup {[dispatch_mode |-> d, enable_coroutine |-> e] :
                 d \in DispatchModeArgs, e \in BOOLEAN}
        \cup {[dispatch_mode |-> d, send_yield |-> y] :
                 d \in DispatchModeArgs, y \in BOOLEAN}
        \cup {[enable_coroutine |-> e, send_yield |-> y] : e \in BOOLEAN, y \in BOOLEAN}
        \cup {[dispatch_mode |-> d, enable_coroutine |-> e, send_yield |-> y] :
                 d \in DispatchModeArgs, e \in BOOLEAN, y \in BOOLEAN}

SetInit ==
    /\ settings = [worker_num |-> SW_CPU_NUM, cpu_affinity_available_num |-> 0,
                   cpu_affinity_available |-> <<>>, heap_corrupt |-> FALSE,
                   terminated |-> FALSE,
                   enable_coroutine |-> SwooleG_enable_coroutine,
                   dispatch_mode |-> DISPATCH_FDMOD, send_yield |-> FALSE]
    /\ set_last = [op |-> "none"]

\* the worker_num option: SW_MAX(0, SW_MIN(v, UINT32_MAX)), 0 replaced by SW_CPU_NUM
set_worker_num(worker_num, v) ==
    LET clamped == SW_MAX(0, SW_MIN(v, UINT32_MAX))
    IN  [ok |-> TRUE, worker_num |-> IF clamped = 0 THEN SW_CPU_NUM ELSE clamped]

\* the options enable_coroutine, dispatch_mode and send_yield, in this order
set_send_yield(vht, serv) ==
    LET enable_coroutine == IF "enable_coroutine" \in DOMAIN vht
                            THEN vht.enable_coroutine
                            ELSE SwooleG_enable_coroutine
        dispatch_mode == IF "dispatch_mode" \in DOMAIN vht
                         THEN SW_MAX(0, SW_MIN(vht.dispatch_mode, UINT8_MAX))
                         ELSE serv.dispatch_mode
        send_yield == IF "send_yield" \in DOMAIN vht
                      THEN vht.send_yield
                               /\ dispatch_mode \in {DISPATCH_FDMOD, DISPATCH_IPMOD}
                      ELSE enable_coroutine
    IN  [enable_coroutine |-> enable_coroutine, dispatch_mode |-> dispatch_mode,
         send_yield |-> send_yield]

\* the loop over the CPUs: the indices it writes, in the order it writes them
cpus_written(ignore) ==
    SelectSeq([j \in 1..SW_CPU_NUM |-> j - 1],
              LAMBDA i : \A k \in DOMAIN ignore : ignore[k] # i)

\* the cpu_affinity_ignore option: what is allocated, written, and stored
set_cpu_affinity_ignore(ignore, malloc_ok) ==
    LET ignore_num == Len(ignore)
        available_num == SW_CPU_NUM - ignore_num
        written == cpus_written(ignore)
    IN  IF ignore_num >= SW_CPU_NUM
        THEN [outcome |-> "fatal", available_num |-> 0, available_cpu |-> <<>>,
              written |-> 0]
        ELSE IF ~malloc_ok
        THEN [outcome |-> "nomem", available_num |-> 0, available_cpu |-> <<>>,
              written |-> 0]
        ELSE [outcome |-> IF Len(written) > available_num THEN "overflow" ELSE "ok",
              available_num |-> available_num,
              available_cpu |-> SubSeq(written, 1, available_num),
              written |-> Len(written)]

\* PHP_METHOD(swoole_server, set) with the options worker_num, enable_coroutine,
\* dispatch_mode, send_yield and cpu_affinity_ignore
set(vht, malloc_ok, ub) ==
    /\ ~settings.terminated
    /\ LET refused == start_env.worker_thread \/ server_state.started
           has_worker_num == "worker_num" \in DOMAIN vht
           has_ignore == "cpu_affinity_ignore" \in DOMAIN vht
           w == IF has_worker_num THEN set_worker_num(settings.worker_num, vht.worker_num)
                ELSE [ok |-> TRUE, worker_num |-> settings.worker_num]
           a == IF has_ignore THEN set_cpu_affinity_ignore(vht.cpu_affinity_ignore, malloc_ok)
                ELSE [outcome |-> "absent", available_num |-> 0, available_cpu |-> <<>>,
                      written |-> 0]
           y == set_send_yield(vht, settings)
           stored == a.outcome = "ok" \/ (a.outcome = "overflow" /\ ub = "stray_write")
           ended == a.outcome = "fatal" \/ (a.outcome = "overflow" /\ ub = "fault")
       IN  /\ settings' =
                 IF refused THEN settings
                 ELSE [worker_num |-> w.worker_num,
                       cpu_affinity_available_num |->
                           IF stored THEN a.available_num
                           ELSE settings.cpu_affinity_available_num,
                       cpu_affinity_available |->
                           IF stored THEN a.available_cpu
                           ELSE settings.cpu_affinity_available,
                       heap_corrupt |-> settings.heap_corrupt \/ a.outcome = "overflow",
                       terminated |-> ended,
                       enable_coroutine |-> y.enable_coroutine,
                       dispatch_mode |-> y.dispatch_mode,
                       send_yield |-> y.send_yield]
           /\ set_last' = [op |-> "set", vht |-> vht,
                           prev_worker_num |-> settings.worker_num,
                           returned |-> ~refused /\ ~ended /\ a.outcome # "nomem",
                           outcome |-> IF refused THEN "refused" ELSE a.outcome,
                           written |-> IF refused THEN 0 ELSE a.written]
    /\ UNCHANGED nonSetVars

\* ------------------------------------------------ on, listen and addProcess
\* the number of Callable objects, ports and user processes the model follows
MaxCallables == 3
MaxPorts == 2
MaxUserProcess == 1

\* the event names on() is called with; the first two are in server_event_map
EventNames == {"Start", "task", "Receive"}
ServerEvents == {"start", "task"}
zend_string_tolower(name) ==
    IF name = "Start" THEN "start" ELSE IF name = "Receive" THEN "receive" ELSE name
\* what is passed as the callback: a callable, or a value that is none
CallbackArgs == {"valid", "invalid"}

CfgInit ==
    /\ callbacks = [e \in ServerEvents |-> 0]
    /\ callables = <<>>
    /\ properties = [e \in ServerEvents |-> "null"]
    /\ ports = <<"primary">>
    /\ user_processes = <<>>
    /\ cfg_last = [seq |-> 0, op |-> "none", returned |-> FALSE]

cfg_call(op, returned) == [seq |-> 1 - cfg_last.seq, op |-> op, returned |-> returned]

\* a test of the running server that lets every call through
config_refused_never == FALSE

\* !serv->is_worker_thread() && serv->is_started()
config_refused == ~start_env.worker_thread /\ server_state.started

\* sw_callable_free of the callable in a slot that is not empty
sw_callable_free(objs, callable) ==
    IF callable = 0 THEN objs ELSE [objs EXCEPT ![callable] = "freed"]

\* the port's on(), called for an event that is not a server event
Port_on(cb) == cb = "valid"

\* PHP_METHOD(swoole_server, on)
on(name, cb) ==
    /\ ~server_state.fatal
    /\ LET event == zend_string_tolower(name) IN
       IF config_refused
       THEN /\ cfg_last' = cfg_call("on", FALSE)
            /\ UNCHANGED <<callbacks, callables, properties>>
       ELSE IF event \notin ServerEvents
       THEN /\ cfg_last' = cfg_call("on", Port_on(cb))
            /\ UNCHANGED <<callbacks, callables, properties>>
       ELSE LET freed == sw_callable_free(callables, callbacks[event]) IN
            /\ properties' = [properties EXCEPT ![event] = cb]
            /\ IF cb = "invalid"
               THEN /\ callables' = freed
                    /\ UNCHANGED callbacks
                    /\ cfg_last' = cfg_call("on", FALSE)
               ELSE /\ Len(callables) < MaxCallables
                    /\ callables' = Append(freed, "live")
                    /\ callbacks' = [callbacks EXCEPT ![event] = Len(freed) + 1]
                    /\ cfg_last' = cfg_call("on", TRUE)
    /\ UNCHANGED <<ports, user_processes, server_state>>
    /\ UNCHANGED nonCfgVars

\* PHP_METHOD(swoole_server, listen); port_ok says that add_port or get_port
\* returned a port
listen(port_ok) ==
    /\ ~server_state.fatal
    /\ IF config_refused \/ ~port_ok
       THEN /\ cfg_last' = cfg_call("listen", FALSE)
            /\ UNCHANGED ports
       ELSE /\ Len(ports) < MaxPorts
            /\ ports' = Append(ports, "port")
            /\ cfg_last' = cfg_call("listen", TRUE)
    /\ UNCHANGED <<callbacks, callables, properties, user_processes, server_state>>
    /\ UNCHANGED nonCfgVars

\* PHP_METHOD(swoole_server, addProcess); worker_ok says that the calling
\* thread is a user worker, or that add_worker took the process
addProcess(is_process, worker_ok) ==
    /\ ~server_state.fatal
    /\ IF config_refused
       THEN /\ cfg_last' = cfg_call("addProcess", FALSE)
            /\ UNCHANGED <<user_processes, server_state>>
       ELSE IF ~is_process
       THEN /\ server_state' = [server_state EXCEPT !.fatal = TRUE]
            /\ cfg_last' = cfg_call("addProcess", FALSE)
            /\ UNCHANGED user_processes
       ELSE /\ Len(user_processes) < MaxUserProcess
            /\ user_processes' = Append(user_processes, "process")
            /\ cfg_last' = cfg_call("addProcess", worker_ok)
            /\ UNCHANGED server_state
    /\ UNCHANGED <<callbacks, callables, properties, ports>>
    /\ UNCHANGED nonCfgVars

\* ---------------------------------------------- signalfd, fork and teardown
\* processes, signalfd objects and event loops the model follows
NumPid == 2
MaxSignalfd == 2
MaxEpoll == 2
Pids == 1..NumPid

\* a process that does not exist yet, and the first process
no_process == [alive |-> FALSE, signal_fd |-> -1, signalfd_create_pid |-> 0,
               reactor |-> 0, handler |-> FALSE, events |-> FALSE]
main_process == [no_process EXCEPT !.alive = TRUE, !.reactor = 1]

ForkInit ==
    /\ procs = [p \in Pids |-> IF p = 1 THEN main_process ELSE no_process]
    /\ signalfds = <<>>
    /\ epolls = <<{}>>
    /\ teardown_last = [seq |-> 0, pid |-> 0, fd |-> -1, callback |-> FALSE,
                       deleted |-> FALSE]

\* the processes that hold a descriptor of signalfd object fd
holders(ps, fd) == {p \in Pids : ps[p].alive /\ ps[p].signal_fd = fd}

\* a destroy callback that removes the signal socket whenever there is one
destroy_callback_deletes_any(pid, proc) == proc.signal_fd # -1

\* the destroy callback: signal_socket && signalfd_create_pid == getpid()
destroy_callback_deletes(pid, proc) ==
    proc.signal_fd # -1 /\ proc.signalfd_create_pid = pid

\* swoole_signalfd_setup(reactor) in process pid, with swoole_signalfd_create
signalfd_setup(pid, create_ok, add_ok) ==
    /\ procs[pid].alive /\ procs[pid].reactor # 0
    /\ LET proc == procs[pid]
           create == proc.signal_fd = -1
           made == IF create /\ create_ok
                   THEN [proc EXCEPT !.signal_fd = Len(signalfds) + 1,
                                     !.signalfd_create_pid = pid, !.events = FALSE]
                   ELSE proc
           ready == [made EXCEPT !.handler = TRUE]
       IN  IF create /\ ~create_ok
           THEN UNCHANGED <<procs, signalfds, epolls>>
           ELSE /\ create => Len(signalfds) < MaxSignalfd
                /\ signalfds' = IF create THEN Append(signalfds, pid) ELSE signalfds
                /\ IF ready.events
                   THEN procs' = [procs EXCEPT ![pid] = ready] /\ UNCHANGED epolls
                   ELSE IF add_ok
                   THEN /\ procs' = [procs EXCEPT ![pid] = [ready EXCEPT !.events = TRUE]]
                        /\ epolls' = [epolls EXCEPT ![ready.reactor] = @ \cup {ready.signal_fd}]
                   ELSE procs' = [procs EXCEPT ![pid] = ready] /\ UNCHANGED epolls
    /\ UNCHANGED teardown_last
    /\ UNCHANGED nonForkVars

\* swoole_signalfd_clear in process pid, down to close(signal_fd): the kernel
\* drops the object from the event loops when its last descriptor is closed
signalfd_clear(pid) ==
    /\ procs[pid].alive /\ procs[pid].signal_fd # -1
    /\ LET fd == procs[pid].signal_fd IN
       /\ procs' = [procs EXCEPT ![pid].signal_fd = -1, ![pid].events = FALSE]
       /\ epolls' = IF holders(procs, fd) = {pid}
                    THEN [e \in DOMAIN epolls |-> epolls[e] \ {fd}]
                    ELSE epolls
    /\ UNCHANGED <<signalfds, teardown_last>>
    /\ UNCHANGED nonForkVars

\* fork(): the child starts with a copy of the parent's memory and descriptors
fork(parent, child) ==
    /\ procs[parent].alive /\ ~procs[child].alive
    /\ procs' = [procs EXCEPT ![child] = procs[parent]]
    /\ UNCHANGED <<signalfds, epolls, teardown_last>>
    /\ UNCHANGED nonForkVars

\* process pid makes itself a new event loop
reactor_create(pid) ==
    /\ procs[pid].alive /\ procs[pid].reactor = 0
    /\ Len(epolls) < MaxEpoll
    /\ epolls' = Append(epolls, {})
    /\ procs' = [procs EXCEPT ![pid].reactor = Len(epolls) + 1, ![pid].handler = FALSE]
    /\ UNCHANGED <<signalfds, teardown_last>>
    /\ UNCHANGED nonForkVars

\* process pid tears its reactor down: the destroy callback added by
\* swoole_signalfd_setup runs
reactor_destroy(pid) ==
    /\ procs[pid].alive /\ procs[pid].reactor # 0
    /\ LET proc == procs[pid]
           deletes == proc.handler /\ destroy_callback_deletes(pid, proc)
       IN  /\ epolls' = IF deletes
                        THEN [epolls EXCEPT ![proc.reactor] = @ \ {proc.signal_fd}]
                        ELSE epolls
           /\ procs' = [procs EXCEPT ![pid].reactor = 0, ![pid].handler = FALSE,
                                     ![pid].events = IF deletes THEN FALSE ELSE @]
           /\ teardown_last' = [seq |-> 1 - teardown_last.seq, pid |-> pid,
                                fd |-> proc.signal_fd, callback |-> proc.handler,
                                deleted |-> deletes]
    /\ UNCHANGED signalfds
    /\ UNCHANGED nonForkVars

\* the parts that take no step in a specification start in their initial state
DefaultEnv == [enable_signalfd |-> FALSE, reactor |-> FALSE]
MoreInit == SendInit /\ CmdInit /\ PackInit /\ WorkerInit /\ SetInit /\ CfgInit /\ ForkInit
OtherInit == HeartbeatInit /\ SignalInit /\ sig_env = DefaultEnv /\ MoreInit

\* --------------------------------------------------------------------- Spec
TaskIds == 0..(MaxTaskId - 1)

\* the coroutine task calls of a worker: taskwait, taskCo, taskWaitMulti
InitCo == TaskInit /\ has_onFinish = TRUE /\ BindInit /\ DispatchInit /\ OtherInit

NextCo ==
    \/ \E c \in Coroutines, p \in BOOLEAN, t \in BOOLEAN : taskwait(c, p, t)
    \/ \E c \in Coroutines, f \in {"taskCo", "taskWaitMulti"}, z \in TaskLists :
          taskCo(c, f, z)
    \/ \E c \in Coroutines : timeout(c)
    \/ \E id \in TaskIds : task_worker_finish(id)
    \/ \E id \in TaskIds, u \in BOOLEAN : php_swoole_server_onFinish(id, u)

SpecCo == InitCo /\ [][NextCo]_vars

\* the single-task calls of a worker: taskwait and task, with or without callback
InitTask == TaskInit /\ has_onFinish \in BOOLEAN /\ BindInit /\ DispatchInit /\ OtherInit

NextTask ==
    \/ \E c \in Coroutines, p \in BOOLEAN, t \in BOOLEAN : taskwait(c, p, t)
    \/ \E c \in Coroutines : timeout(c)
    \/ \E zfn \in {"none", "valid", "invalid"}, p \in BOOLEAN, t \in BOOLEAN :
          task(zfn, p, t)
    \/ \E id \in TaskIds : task_worker_finish(id)
    \/ \E id \in TaskIds, u \in BOOLEAN : php_swoole_server_onFinish(id, u)

SpecTask == InitTask /\ [][NextTask]_vars

\* bind called by several execution units on one live connection
InitBind == TaskInit /\ has_onFinish = TRUE /\ BindInit /\ DispatchInit /\ OtherInit

NextBind ==
    \/ \E p \in Procs, uid \in UidArgs : bind(p, uid)
    \/ \E p \in Procs : sw_spinlock(p)
    \/ \E p \in Procs : bind_read(p)
    \/ \E p \in Procs : bind_write(p)
    \/ \E p \in Procs : sw_spinlock_release(p)

SpecBind == InitBind /\ [][NextBind]_vars

\* the user dispatch function called with any worker count and return value
InitDispatch == TaskInit /\ has_onFinish = TRUE /\ BindInit /\ DispatchInit /\ OtherInit

NextDispatch ==
    \E worker_num \in 1..MaxWorkerNum, call_result \in {"SUCCESS", "FAILURE"},
       retval \in Retvals, exception \in BOOLEAN :
          dispatch_call(worker_num, call_result, retval, exception)

SpecDispatch == InitDispatch /\ [][NextDispatch]_vars

\* heartbeat sweeps over connections that come, idle, receive and are protected
InitHeartbeat ==
    /\ TaskInit /\ has_onFinish = TRUE /\ BindInit /\ DispatchInit
    /\ conns = [i \in Conns |-> new_Connection]
    /\ heartbeat \in {[seq |-> 0, check_interval |-> c] : c \in {0, 1}}
    /\ SignalInit /\ sig_env = DefaultEnv /\ MoreInit

NextHeartbeat ==
    \/ \E close_connection \in BOOLEAN : heartbeat_call(close_connection)
    \/ \E i \in Conns, value \in BOOLEAN : protect(i, value)
    \/ \E i \in Conns : conn_accept(i)
    \/ \E i \in Conns : conn_recv(i)
    \/ \E i \in Conns : conn_idle(i)

SpecHeartbeat == InitHeartbeat /\ [][NextHeartbeat]_vars

\* the signal code of one process, with or without signalfd and reactor
InitSignal ==
    /\ TaskInit /\ has_onFinish = TRUE /\ BindInit /\ DispatchInit /\ HeartbeatInit
    /\ SignalInit /\ sig_env \in SigEnvs /\ MoreInit

NextSignal ==
    \/ \E signo \in SignoArgs \ Signos, handler \in HandlerArgs,
          ub \in OutOfBoundsOutcomes :
          swoole_signal_set(signo, handler, TRUE, TRUE, TRUE, ub)
    \/ \E signo \in Signos, handler \in HandlerArgs, safety \in BOOLEAN :
          /\ ~is_signalfd_backend
          /\ swoole_signal_set(signo, handler, safety, TRUE, TRUE, "fault")
    \/ \E signo \in Signos, handler \in HandlerArgs, create_ok \in BOOLEAN,
          add_ok \in BOOLEAN :
          /\ is_signalfd_backend
          /\ swoole_signal_set(signo, handler, TRUE, create_ok, add_ok, "fault")
    \/ \E signo \in Signos : os_raise(signo)
    \/ \E signo \in Signos : os_unblocked(signo)
    \/ signal_handler_simple
    \/ signal_handler_simple_return
    \/ swoole_signal_dispatch
    \/ swoole_signal_dispatch_loop
    \/ swoole_signal_dispatch_clear
    \/ swoole_signal_dispatch_end
    \/ \E signo \in Signos : swoole_signalfd_event_callback(signo)

SpecSignal == InitSignal /\ [][NextSignal]_vars

\* coroutines whose sends are held back on sessions that drain and close
InitSend ==
    /\ TaskInit /\ has_onFinish = TRUE /\ BindInit /\ DispatchInit /\ HeartbeatInit
    /\ SignalInit /\ sig_env = DefaultEnv
    /\ SendInit!1 /\ SendInit!2 /\ SendInit!4 /\ SendInit!5
    /\ send_server \in {[enable_coroutine |-> e, send_yield |-> TRUE, closed |-> {}] :
                           e \in BOOLEAN}
    /\ CmdInit /\ PackInit /\ WorkerInit /\ SetInit /\ CfgInit /\ ForkInit

NextSend ==
    \/ \E co \in Senders, session_id \in Sessions, length \in {0, 1} :
          php_swoole_server_send_yield(co, session_id, length)
    \/ \E co \in Senders : send_yield_timeout(co)
    \/ \E co \in Senders : send_return(co)
    \/ \E session_id \in Sessions :
          \E outcomes \in [waiting_on(senders, session_id) -> SendOutcomes] :
              php_swoole_server_onBufferEmpty(session_id, outcomes)
    \/ \E session_id \in Sessions : php_swoole_server_onClose(session_id)

SpecSend == InitSend /\ [][NextSend]_vars

\* a server that is configured with commands, started, asked and shut down
InitCommand ==
    /\ TaskInit /\ has_onFinish = TRUE /\ BindInit /\ DispatchInit /\ HeartbeatInit
    /\ SignalInit /\ sig_env = DefaultEnv /\ SendInit /\ PackInit /\ WorkerInit /\ SetInit
    /\ CfgInit /\ ForkInit /\ CmdInit!3 /\ CmdInit!4 /\ CmdInit!5 /\ CmdInit!6
    /\ start_env \in [reactor : BOOLEAN, worker_thread : BOOLEAN]
    /\ server_state = IF start_env.worker_thread THEN running ELSE unstarted

NextCommand ==
    \/ \E start_ok \in BOOLEAN : start(start_ok)
    \/ Server_shutdown
    \/ \E name \in CommandNames, types \in ProcessMasks, zfn_ok \in BOOLEAN :
          addCommand(name, types, zfn_ok)
    \/ \E co \in CmdCos, encode_ok \in BOOLEAN, accepted \in BOOLEAN, replied \in BOOLEAN :
          command(co, encode_ok, accepted, replied)
    \/ \E co \in CmdCos, decode_ok \in BOOLEAN : command_reply(co, decode_ok)
    \/ \E co \in CmdCos : command_return(co)

SpecCommand == InitCommand /\ [][NextCommand]_vars

\* the caller goes on whenever it can; the target process owes nothing
SpecCommandLive == SpecCommand /\ \A co \in CmdCos : WF_vars(command_return(co))

\* Task::pack applied to every payload, and Task::unpack to what it returned
InitPack ==
    /\ TaskInit /\ has_onFinish = TRUE /\ BindInit /\ DispatchInit /\ HeartbeatInit
    /\ SignalInit /\ sig_env = DefaultEnv /\ SendInit /\ CmdInit /\ WorkerInit /\ SetInit
    /\ CfgInit /\ ForkInit
    /\ task_buf \in {[pc |-> "input", zdata |-> z, buf |-> no_EventData,
                      return_value |-> zval_false] : z \in Payloads}
    /\ tmpfiles = [f \in {} |-> <<>>]

NextPack ==
    \/ \E tmpfile_ok \in BOOLEAN : Task_pack(tmpfile_ok)
    \/ Task_unpack

SpecPack == InitPack /\ [][NextPack]_vars

\* tasks sent to the task workers and handled by onTask
InitWorker ==
    /\ TaskInit /\ has_onFinish = TRUE /\ BindInit /\ DispatchInit /\ HeartbeatInit
    /\ SignalInit /\ sig_env = DefaultEnv /\ SendInit /\ CmdInit /\ PackInit
    /\ WorkerInit /\ SetInit /\ CfgInit /\ ForkInit

NextWorker ==
    \/ \E id \in WorkerTaskIds : Server_task(id)
    \/ \E id \in WorkerTaskIds, unpack_ok \in BOOLEAN, call_ok \in BOOLEAN,
          retval_null \in BOOLEAN, finishes \in 0..(MaxFinish - 1) :
          php_swoole_server_onTask(id, unpack_ok, call_ok, retval_null, finishes)

SpecWorker == InitWorker /\ [][NextWorker]_vars

\* set() called with any worker count and any list of CPUs to ignore
InitSet ==
    /\ TaskInit /\ has_onFinish = TRUE /\ BindInit /\ DispatchInit /\ HeartbeatInit
    /\ SignalInit /\ sig_env = DefaultEnv /\ SendInit /\ PackInit /\ WorkerInit
    /\ SetInit /\ CfgInit /\ ForkInit /\ CmdInit!3 /\ CmdInit!4 /\ CmdInit!5 /\ CmdInit!6
    /\ start_env \in [reactor : {FALSE}, worker_thread : BOOLEAN]
    /\ server_state \in {unstarted, running}
    /\ start_env.worker_thread => server_state.started

NextSet ==
    \E vht \in SetArgs, malloc_ok \in BOOLEAN, ub \in OutOfBoundsOutcomes :
        set(vht, malloc_ok, ub)

SpecSet == InitSet /\ [][NextSet]_vars

\* set() called with the options that decide send_yield
NextSetYield == \E vht \in YieldSetArgs : set(vht, TRUE, "fault")

SpecSetYield == InitSet /\ [][NextSetYield]_vars

\* on() called with server events, port events, callables and other values
InitOn ==
    /\ TaskInit /\ has_onFinish = TRUE /\ BindInit /\ DispatchInit /\ HeartbeatInit
    /\ SignalInit /\ sig_env = DefaultEnv /\ MoreInit

NextOn == \E name \in EventNames, cb \in CallbackArgs : on(name, cb)

SpecOn == InitOn /\ [][NextOn]_vars

\* the options the configuration calls of a whole server are given
ConfigSetArgs == {[worker_num |-> 2], [dispatch_mode |-> 1]}

\* a server that is configured, started and configured again
InitConfig ==
    /\ TaskInit /\ has_onFinish = TRUE /\ BindInit /\ DispatchInit /\ HeartbeatInit
    /\ SignalInit /\ sig_env = DefaultEnv /\ SendInit /\ PackInit /\ WorkerInit
    /\ SetInit /\ CfgInit /\ ForkInit /\ CmdInit!3 /\ CmdInit!4 /\ CmdInit!5 /\ CmdInit!6
    /\ start_env \in [reactor : {FALSE}, worker_thread : BOOLEAN]
    /\ server_state = IF start_env.worker_thread THEN running ELSE unstarted

NextConfig ==
    \/ \E start_ok \in BOOLEAN : start(start_ok)
    \/ \E vht \in ConfigSetArgs : set(vht, TRUE, "fault")
    \/ \E name \in {"Start", "Receive"}, cb \in CallbackArgs : on(name, cb)
    \/ \E port_ok \in BOOLEAN : listen(port_ok)
    \/ \E is_process \in BOOLEAN, worker_ok \in BOOLEAN : addProcess(is_process, worker_ok)
    \/ \E types \in {{"EVENT_WORKER"}, {"REACTOR_THREAD"}} : addCommand("a", types, TRUE)

SpecConfig == InitConfig /\ [][NextConfig]_vars

\* processes that set up the signalfd, fork, and tear their reactors down
InitFork ==
    /\ TaskInit /\ has_onFinish = TRUE /\ BindInit /\ DispatchInit /\ HeartbeatInit
    /\ SignalInit /\ sig_env = DefaultEnv /\ MoreInit

NextFork ==
    \/ \E pid \in Pids, create_ok \in BOOLEAN, add_ok \in BOOLEAN :
          signalfd_setup(pid, create_ok, add_ok)
    \/ \E pid \in Pids : signalfd_clear(pid)
    \/ \E parent \in Pids, child \in Pids : fork(parent, child)
    \/ \E pid \in Pids : reactor_create(pid)
    \/ \E pid \in Pids : reactor_destroy(pid)

SpecFork == InitFork /\ [][NextFork]_vars

\* ------------------------------------------------------------------- claims
is_join(kind) == kind \in {"taskCo", "taskWaitMulti"}
is_waiting(id) == \E k \in DOMAIN calls : calls[k].task_id = id
taskwait_ids == {id \in DOMAIN tasks : tasks[id].api = "taskwait"}

\* C1: a coroutine waiting in taskwait is resumed exactly once, by exactly one
\* of the two: the task's result is delivered to it, or the timeout resumes it
\* with false; never both for one task id.  While it waits its id is tracked,
\* once it has returned the id is tracked no more.
TaskwaitResumedByExactlyOne ==
    /\ \A id \in taskwait_ids :
          IF is_waiting(id)
          THEN /\ ~tasks[id].delivered /\ ~tasks[id].timed_out
               /\ id \in DOMAIN task_coroutine_map
               /\ is_alive(calls, task_coroutine_map[id])
               /\ calls[task_coroutine_map[id]].task_id = id
          ELSE /\ tasks[id].delivered # tasks[id].timed_out
               /\ id \notin DOMAIN task_coroutine_map
    /\ last_return.kind = "taskwait" =>
          /\ last_return.cause \in {"result", "timeout"}
          /\ last_return.cause = "result" =>
                /\ last_return.value = Res(last_return.task_id)
                /\ tasks[last_return.task_id].delivered
          /\ last_return.cause = "timeout" =>
                /\ last_return.value = FalseValue
                /\ tasks[last_return.task_id].timed_out

\* C1 witness: one taskwait got its result, another timed out and its late
\* result reached onFinish afterwards
TaskwaitBothEndings ==
    /\ \E id \in taskwait_ids : tasks[id].delivered
    /\ \E id \in taskwait_ids : tasks[id].timed_out /\ tasks[id].warned

\* C2: a coroutine suspended in a multi-task join is resumed by a completion
\* only when every task id the call dispatched has delivered its result
JoinResumedOnlyWhenComplete ==
    (is_join(last_return.kind) /\ last_return.cause = "result") =>
        \A i \in DOMAIN last_return.list :
            last_return.list[i] >= 0 =>
                /\ i \in DOMAIN last_return.result
                /\ last_return.result[i] = Res(last_return.list[i])

\* C3: when a multi-task join times out, the returned set holds every result
\* that arrived at its original index and false at the index of every task
\* whose result did not arrive, for taskCo and for taskWaitMulti
JoinTimeoutResultSet ==
    (is_join(last_return.kind) /\ last_return.cause = "timeout") =>
        \A i \in DOMAIN last_return.list :
            /\ i \in DOMAIN last_return.result
            /\ last_return.result[i] =
                  IF last_return.list[i] >= 0 /\ tasks[last_return.list[i]].arrived
                  THEN Res(last_return.list[i])
                  ELSE FalseValue

\* C4: when a multi-task join times out, every task id of the call whose
\* result is still outstanding is gone from task_coroutine_map when it returns
JoinTimeoutPurgesOutstanding ==
    (is_join(last_return.kind) /\ last_return.cause = "timeout") =>
        \A i \in DOMAIN last_return.list :
            (last_return.list[i] >= 0 /\ ~tasks[last_return.list[i]].arrived) =>
                last_return.list[i] \notin DOMAIN task_coroutine_map

\* C5: in a multi-task join the result of each completed task is stored at the
\* position its task had in the input list
result_at_position(task_co) ==
    \A i \in DOMAIN task_co.list :
        (task_co.list[i] >= 0 /\ tasks[task_co.list[i]].arrived) =>
            /\ i \in DOMAIN task_co.result
            /\ task_co.result[i] = Res(task_co.list[i])

JoinResultAtPosition ==
    /\ \A k \in DOMAIN calls : ~calls[k].list_null => result_at_position(calls[k])
    /\ is_join(last_return.kind) => result_at_position(last_return)

\* C6: a completion for a task id with no tracking entry (coroutine mode: not
\* in task_coroutine_map; callback mode: not in task_callbacks) is only
\* logged: no coroutine is resumed, no result set written, no callback and no
\* onFinish handler run, both maps stay as they are
untracked(id) ==
    \/ tasks[id].mode = "coroutine" /\ id \notin DOMAIN task_coroutine_map
    \/ tasks[id].mode = "callback" /\ id \notin DOMAIN task_callbacks

UnknownCompletionOnlyLogged ==
    [][\A id \in DOMAIN tasks :
          (untracked(id) /\ tasks'[id].pending < tasks[id].pending) =>
              /\ UNCHANGED <<task_coroutine_map, task_callbacks, calls, last_return,
                             crashed>>
              /\ tasks'[id].cb_runs = tasks[id].cb_runs
              /\ tasks'[id].onFinish_runs = tasks[id].onFinish_runs
              /\ tasks'[id].delivered = tasks[id].delivered
              /\ tasks'[id].arrived = tasks[id].arrived]_vars

\* C6 witness: the warning was logged for a coroutine-mode id and for a
\* callback-mode id while an onFinish handler is registered
UnknownCompletionsSeen ==
    /\ has_onFinish
    /\ \E id \in DOMAIN tasks : tasks[id].mode = "coroutine" /\ tasks[id].warned
    /\ \E id \in DOMAIN tasks : tasks[id].mode = "callback" /\ tasks[id].warned

accepted(uid) == uid <= UINT32_MAX /\ uid >= INT32_MIN
bind_done(p) == binds[p].pc = "done"
others_idle(p, q) == \A r \in Procs \ {p, q} : binds[r].pc = "idle"
is_race(p, q) ==
    /\ p # q /\ bind_done(p) /\ bind_done(q) /\ others_idle(p, q)
    /\ accepted(binds[p].uid) /\ accepted(binds[q].uid)
    /\ binds[p].uid # 0 /\ binds[q].uid # 0 /\ binds[p].uid # binds[q].uid

\* C8 as stated: of two bind calls with different non-zero uids on one
\* connection exactly one returns true, and the connection's uid then equals
\* the winner's uid
BindRaceWinnerUid ==
    \A p, q \in Procs : is_race(p, q) =>
        /\ (binds[p].ret = "true") # (binds[q].ret = "true")
        /\ \A w \in {p, q} : binds[w].ret = "true" => conn_uid = binds[w].uid

\* C8 amended: of two bind calls with different non-zero uids on one
\* connection exactly one returns true, and the connection's uid then equals
\* the winner's uid cast to uint32_t; the loser never reaches the write
BindRaceOneWinner ==
    /\ \A p, q \in Procs : is_race(p, q) =>
          /\ (binds[p].ret = "true") # (binds[q].ret = "true")
          /\ \A w \in {p, q} : binds[w].ret = "true" => conn_uid = to_uint32(binds[w].uid)
    /\ \A p \in Procs : (binds[p].pc = "write" /\ binds[p].uid # 0) => conn_uid = 0

\* C8 witness: a bind that started while another was in progress lost the race
BindRaceHappened ==
    \E p, q \in Procs :
        /\ is_race(p, q)
        /\ binds[p].ret = "true" /\ binds[q].ret = "false" /\ binds[q].raced

\* C9: over any bind calls with accepted uids on one connection at most one
\* returns success, and after a success the connection is bound
BindAtMostOnce ==
    /\ Cardinality({p \in Procs : bind_done(p) /\ binds[p].ret = "true"}) <= 1
    /\ (\E p \in Procs : bind_done(p) /\ binds[p].ret = "true") => conn_uid # 0

\* C10: the value the dispatch function hands to the server is a worker id in
\* [0, worker_num) or one of the sentinel outcomes
DispatchResults == {SW_DISPATCH_RESULT_DISCARD_PACKET,
                    SW_DISPATCH_RESULT_CLOSE_CONNECTION,
                    SW_DISPATCH_RESULT_USERFUNC_FALLBACK}

DispatchReturnsWorkerOrSentinel ==
    dispatch.worker_num > 0 =>
        \/ dispatch.returned \in 0..(dispatch.worker_num - 1)
        \/ dispatch.returned \in DispatchResults

\* C11: when the user dispatch function fails (the call errors or it throws)
\* the dispatch function neither ends the process nor discards the packet: it
\* hands the fallback outcome to the server
DispatchFailureFallsBack ==
    (dispatch.worker_num > 0 /\ (dispatch.call_result # "SUCCESS" \/ dispatch.exception)) =>
        /\ ~dispatch.terminated
        /\ dispatch.returned = SW_DISPATCH_RESULT_USERFUNC_FALLBACK

returned_ids(hb) == {hb.returned[j] : j \in DOMAIN hb.returned}

\* C12: a heartbeat sweep never closes and never reports a connection whose
\* protect flag is set or whose session_id is <= 0, whatever its idle time and
\* whatever close_connection is
HeartbeatSparesProtectedAndUnbound ==
    [][heartbeat' # heartbeat =>
          \A i \in Conns :
              (conns[i].protect \/ conns[i].session_id <= 0) =>
                  /\ conns'[i] = conns[i]
                  /\ conns[i].session_id \notin returned_ids(heartbeat')]_vars

\* C12 witness: a closing sweep ran and left alone a protected connection and
\* an unbound slot that both were idle beyond the threshold
SweepSparedIdleOnes ==
    /\ heartbeat.seq = 1 /\ heartbeat.swept /\ heartbeat.close_connection
    /\ heartbeat.returned = <<>>
    /\ \E i \in Conns : /\ conns[i].session_id > 0 /\ conns[i].protect
                        /\ conns[i].idle > heartbeat_idle_time /\ ~conns[i].closed
    /\ \E i \in Conns : /\ conns[i].session_id <= 0
                        /\ conns[i].idle > heartbeat_idle_time /\ ~conns[i].closed

UnregisterTwiceIsNoOp ==
    (sig_last.kind = "set" /\ sig_last.signo \in Signos /\ sig_last.again) =>
        /\ sig_last.returned = "nullptr"
        /\ ~sig_last.changed

is_ascending(seq) == \A j, k \in DOMAIN seq : j < k => seq[j] < seq[k]

\* C15: a call of swoole_signal_dispatch during which no signal arrives
\* invokes the handler once for each signal whose triggered flag was set, in
\* ascending order, for no other signal, and returns with every flag cleared
DispatchInvokesEachTriggeredOnce ==
    (dispatching.pc = "idle" /\ dispatching.ran /\ dispatching.quiet) =>
        /\ {dispatching.invoked[j] : j \in DOMAIN dispatching.invoked} = dispatching.start
        /\ Len(dispatching.invoked) = Cardinality(dispatching.start)
        /\ is_ascending(dispatching.invoked)
        /\ dispatching.end_flags = {}

\* C16: under the classic backend, in safety mode and in simple mode with a
\* reactor, the code run in signal-handler context only sets the signal's
\* triggered flag and the dispatch-pending flag; a handler is invoked in
\* signal-handler context only in simple mode without a reactor
HandlerContextOnlySetsFlags ==
    [][/\ (sig_last'.kind = "invoke" /\ sig_last'.context = "signal") =>
              (~sw_reactor /\ os'.sigaction[sig_last'.signo] = "signal_handler_simple")
       /\ frames' # <<>> => ~sw_reactor
       /\ \A s \in Signos :
              ((triggered_signals'[s] /\ ~triggered_signals[s])
                  \/ (signal_dispatch' /\ ~signal_dispatch)) =>
                  /\ sig_last'.kind = "flag"
                  /\ triggered_signals' =
                         [triggered_signals EXCEPT ![sig_last'.signo] = TRUE]
                  /\ signal_dispatch'
                  /\ dispatching'.invoked = dispatching.invoked
                         \/ dispatching'.invoked = <<>>
                  /\ UNCHANGED <<signals, frames, simple_lock, signalfd_mask,
                                 signal_fd>>]_vars

\* C16 witness: with a reactor, a signal registered in simple mode had its
\* handler invoked from swoole_signal_dispatch
SimpleModeHandlerDispatched ==
    /\ sw_reactor /\ ~sig_env.enable_signalfd
    /\ sig_last.kind = "invoke" /\ sig_last.context = "dispatch"
    /\ os.sigaction[sig_last.signo] = "signal_handler_simple"

\* C17: in simple mode without a reactor a delivery of the same signal that
\* arrives while its handler runs is discarded: it does not enter the handler
\* later
NestedSameSignalDiscarded ==
    [][\A s \in Signos :
          (/\ ~sw_reactor /\ signals[s].handler # "nullptr"
           /\ s \in os.pending /\ s \notin os'.pending) =>
              Len(frames') <= Len(frames)]_vars

\* C18: registering a handler for a signal number outside the table is
\* rejected: no entry is touched outside the table and the process goes on
OutOfRangeSignoRejected ==
    (sig_last.kind = "set" /\ sig_last.signo \notin Signos) =>
        /\ ~sig_last.out_of_bounds
        /\ ~os.killed

\* C19: when a signal whose table entry holds no handler reaches
\* swoole_signal_callback from swoole_signal_dispatch, or the signalfd read
\* callback, no handler is invoked, a warning is logged, the process goes on,
\* and swoole_signal_dispatch still clears the signal's triggered flag
UnregisteredSignalOnlyWarns ==
    [][/\ (/\ dispatching.pc = "loop" /\ dispatching'.pc = "clear"
           /\ signals[dispatching.i].handler = "nullptr") =>
              /\ sig_last'.kind = "warn" /\ sig_last'.signo = dispatching.i
              /\ dispatching'.invoked = dispatching.invoked
              /\ ~os'.killed
              /\ UNCHANGED <<signals, frames, simple_lock>>
       /\ (dispatching.pc = "clear" /\ dispatching'.pc # "clear") =>
              ~triggered_signals'[dispatching.i]
       /\ \A s \in Signos :
              (/\ s \in os.pending /\ s \notin os'.pending /\ s \in os.blocked
               /\ signals[s].handler = "nullptr") =>
                  /\ sig_last'.kind = "warn" /\ sig_last'.signo = s
                  /\ ~os'.killed
                  /\ UNCHANGED <<signals, frames, simple_lock, dispatching>>
       /\ (sig_last'.kind = "invoke" /\ sig_last'.context # "signal") =>
              sig_last'.handler # "nullptr"]_vars

\* C19 witness: swoole_signal_dispatch met a triggered signal without a
\* handler, warned, cleared its flag and returned
DispatchWarnedAndCleared ==
    /\ sig_last.kind = "warn" /\ sig_last.context = "dispatch"
    /\ dispatching.pc = "idle" /\ dispatching.ran
    /\ ~triggered_signals[sig_last.signo]
    /\ ~os.killed

\* C20: when the setup of the signalfd backend fails during a registration,
\* an OS-level handler is installed for the signal as in the classic backend
SignalfdFailureFallsBack ==
    (/\ sig_last.kind = "set" /\ sig_last.signo \in Signos
     /\ is_signalfd_backend /\ ~sig_last.unregister /\ ~sig_last.setup_ok) =>
        os.sigaction[sig_last.signo] \in {"signal_handler_safety", "signal_handler_simple"}

\* C21: registering a handler for a signal number returns the handler that
\* was registered for that number before (none on first registration) and
\* leaves the new handler as the only one in the table entry
ReRegisterReturnsPrevious ==
    [][(/\ sig_last'.kind = "set" /\ sig_last' # sig_last
        /\ sig_last'.signo \in Signos /\ ~sig_last'.unregister) =>
           /\ sig_last'.returned = signals[sig_last'.signo].handler
           /\ signals'[sig_last'.signo].handler \in Handlers]_vars

list_of(seq) == {seq[j] : j \in DOMAIN seq}

\* C22: when the send buffer of a connection drains, the coroutines queued on
\* it are resumed one at a time in the order in which they were queued, also
\* when a retried send is held back again and queues its coroutine anew; the
\* lists keep the coroutines in the order of their arrival
BufferEmptyResumesInOrder ==
    /\ drained.kind = "empty" =>
          /\ drained.in_order
          /\ drained.resumed = drained.start
          /\ Cardinality(list_of(drained.resumed)) = Len(drained.resumed)
    /\ \A sid \in DOMAIN send_coroutine_map :
          \A j, k \in DOMAIN send_coroutine_map[sid] :
              j < k => <<send_coroutine_map[sid][j], send_coroutine_map[sid][k]>> \in arrival

\* C22 witness: a drain resumed three coroutines of which the second is queued
\* again behind the first, while the third was sent
DrainRequeuedTwo ==
    /\ drained.kind = "empty" /\ Len(drained.start) = 3
    /\ drained.session_id \in DOMAIN send_coroutine_map
    /\ send_coroutine_map[drained.session_id] = <<drained.start[1], drained.start[2]>>
    /\ senders[drained.start[3]].pc = "done" /\ senders[drained.start[3]].ret
    /\ drained.start[1] > drained.start[2]

\* C23: when a connection closes while coroutines are queued on it, every one
\* of them is resumed at once and no wait-queue entry of the session remains
CloseResumesAllQueued ==
    \A sid \in send_server.closed :
        /\ sid \notin DOMAIN send_coroutine_map
        /\ waiting_on(senders, sid) = {}

\* C24: a coroutine that calls command() is always resumed in the end, by the
\* reply of the target process or, when none arrives, by a timeout
CommandEventuallyResumed ==
    \A co \in CmdCos : (cmd_co[co].pc = "suspended") ~> (cmd_co[co].pc # "suspended")

\* C25: addCommand with the reactor-thread type as the only accepted process
\* type returns false and leaves the command table and the stored callbacks
\* as they were
ReactorThreadCommandRejected ==
    [][(/\ cmd_last'.seq # cmd_last.seq /\ cmd_last'.op = "addCommand"
        /\ cmd_last'.types = {"REACTOR_THREAD"}) =>
           /\ ~cmd_last'.returned
           /\ UNCHANGED <<commands, command_callbacks>>]_vars

\* C25 witness: a server that holds a command refused one for reactor threads
ReactorThreadCommandRefused ==
    /\ cmd_last.op = "addCommand" /\ cmd_last.types = {"REACTOR_THREAD"}
    /\ ~cmd_last.returned
    /\ ~server_state.started /\ ~server_state.shutdown
    /\ DOMAIN commands = {"a"} /\ command_callbacks = <<"a">>

is_start_call == cmd_last'.seq # cmd_last.seq /\ cmd_last'.op = "start"
is_conflicting == server_state.started \/ server_state.shutdown \/ start_env.reactor

\* C26: start() on a server that is started or shut down, or in a process
\* that has an event loop, returns false and changes no server state
ConflictingStartAborts ==
    [][(is_start_call /\ is_conflicting) =>
           /\ ~cmd_last'.returned
           /\ UNCHANGED <<server_state, commands, command_callbacks>>]_vars

\* C26 as amended: the same for every caller that is not a worker thread of
\* the server; in a worker thread start() runs the thread's worker function
\* and returns true, and the server state is unchanged in either case
ConflictingStartAbortsOutsideWorkerThread ==
    [][(is_start_call /\ is_conflicting) =>
           /\ ~start_env.worker_thread => ~cmd_last'.returned
           /\ start_env.worker_thread => (cmd_last'.returned /\ cmd_last'.worker_fn)
           /\ UNCHANGED <<server_state, commands, command_callbacks>>]_vars

\* C26 witness: a started server that ran its setup once refused a start
StartRefusedWhileRunning ==
    /\ cmd_last.op = "start" /\ ~cmd_last.returned
    /\ server_state.started /\ ~start_env.reactor /\ ~start_env.worker_thread
    /\ server_state.register_callback = 1 /\ server_state.on_before_start = 1

\* C27: unpacking a packed task envelope gives back the payload: a string
\* byte for byte with the serialization flag clear, any other value equal
\* with the flag set, whether the bytes travel inline or in a temp file
PackUnpackRoundTrip ==
    task_buf.pc = "unpacked" =>
        /\ task_buf.return_value.type = task_buf.zdata.type
        /\ task_buf.return_value.val = task_buf.zdata.val
        /\ ("SW_TASK_SERIALIZE" \in task_buf.buf.ext_flags) = (task_buf.zdata.type # "string")

\* C27 witness: an integer whose serialization is over the inline bound came
\* back through a temp file
LongUnpackedFromTmpfile ==
    /\ task_buf.pc = "unpacked" /\ task_buf.zdata.type = "long"
    /\ "SW_TASK_TMPFILE" \in task_buf.buf.ext_flags
    /\ task_buf.return_value = task_buf.zdata

\* C28: tasking_num is decremented exactly once for each task a task worker
\* handles, whether or not the payload unpacks, whether or not onTask fails,
\* and however many results are sent back: it always equals the number of
\* tasks sent and not yet handled
TaskingNumOncePerTask ==
    /\ \A id \in WorkerTaskIds :
          worker_tasks[id].decrements = IF worker_tasks[id].pc = "handled" THEN 1 ELSE 0
    /\ tasking_num = Cardinality({id \in WorkerTaskIds : worker_tasks[id].pc = "sent"})

\* C28 witness: one task failed to unpack, one sent two results, one is in flight
TaskingNumAfterMixedTasks ==
    /\ tasking_num = 1
    /\ \E id \in WorkerTaskIds :
          worker_tasks[id].pc = "handled" /\ worker_tasks[id].ret = "SW_ERR"
    /\ \E id \in WorkerTaskIds :
          worker_tasks[id].pc = "handled" /\ worker_tasks[id].finishes = MaxFinish

\* C29: set() with a worker_num that is negative or above the largest count
\* fails and leaves worker_num at the value it had
InvalidWorkerNumRejected ==
    (/\ set_last.op = "set" /\ "worker_num" \in DOMAIN set_last.vht
     /\ (set_last.vht.worker_num < 0 \/ set_last.vht.worker_num > UINT32_MAX)) =>
        /\ ~set_last.returned
        /\ settings.worker_num = set_last.prev_worker_num

\* C30: after set() with cpu_affinity_ignore the availability set holds
\* exactly the CPU indices in [0, SW_CPU_NUM) that are not in the list,
\* cpu_affinity_available_num is the number of entries written, and no entry
\* was written past the allocated size
CpuAffinityAvailableExact ==
    (/\ set_last.op = "set" /\ "cpu_affinity_ignore" \in DOMAIN set_last.vht
     /\ set_last.outcome \notin {"fatal", "refused", "nomem"}) =>
        /\ set_last.outcome = "ok"
        /\ list_of(settings.cpu_affinity_available) =
               {i \in 0..(SW_CPU_NUM - 1) :
                   \A k \in DOMAIN set_last.vht.cpu_affinity_ignore :
                       set_last.vht.cpu_affinity_ignore[k] # i}
        /\ settings.cpu_affinity_available_num = set_last.written

\* C32: no raised signal is stranded under the classic backend: once
\* swoole_signal_dispatch has returned, a triggered flag that is set has the
\* dispatch-pending flag set with it, so the next call handles the signal
NoSignalStranded ==
    (dispatching.ran /\ dispatching.pc = "idle" /\ triggered_set # {}) =>
        signal_dispatch

\* the activations of signal_handler_simple that are inside the user's handler
handlers_running(fs) == {j \in DOMAIN fs : fs[j].pc = "running"}

\* C37: in simple mode without a reactor at most one handler invocation is in
\* progress at any time, and a signal, the same or another one, that arrives
\* while a handler is executing is dropped: nothing keeps it for later,
\* neither the triggered flags nor the set of signals held for delivery
SimpleHandlersNeverOverlap ==
    [][~sw_reactor =>
          /\ Cardinality(handlers_running(frames')) <= 1
          /\ handlers_running(frames) # {} =>
                 \A s \in Signos :
                     os.sigaction[s] = "signal_handler_simple" =>
                         /\ triggered_signals'[s] = triggered_signals[s]
                         /\ s \in os'.pending => s \in os.pending]_vars

\* how often a coroutine occurs in a list
occurrences(seq, co) == Cardinality({j \in DOMAIN seq : seq[j] = co})

\* C38: a coroutine whose send wait timed out is in no wait queue when send
\* returns false; a buffer-drain or close event resumes only coroutines that
\* were waiting, and each of them at most once
TimedOutSenderNeverResumed ==
    [][\A co \in Senders :
          /\ (senders'[co].pc = "done" /\ senders'[co].last_error = "timeout") =>
                 \A sid \in DOMAIN send_coroutine_map' :
                     occurrences(send_coroutine_map'[sid], co) = 0
          /\ senders[co].pc # "waiting" => occurrences(drained'.resumed, co) = 0
          /\ occurrences(drained'.resumed, co) <= 1]_vars

\* C38 witness: a coroutine's wait timed out, and the session it waited on
\* then drained or closed and resumed the others
DrainAfterTimeout ==
    \E co \in Senders :
        /\ senders[co].pc = "done" /\ senders[co].last_error = "timeout"
        /\ drained.kind \in {"empty", "close"}
        /\ drained.session_id = senders[co].session_id
        /\ drained.resumed # <<>>

\* C34: when task() is given a completion callback and dispatching the task
\* fails, no entry for the task id remains in task_callbacks: every entry of
\* the table belongs to a task that was dispatched
FailedTaskLeavesNoCallback ==
    \A id \in DOMAIN task_callbacks : id \in DOMAIN tasks

\* C33: when a taskCo call was resumed by completions and returned, no entry
\* of task_coroutine_map is left for any task id of its list, so that a later
\* completion for such an id finds nothing
ReturnedJoinLeavesNoEntry ==
    (is_join(last_return.kind) /\ last_return.cause = "result") =>
        \A i \in DOMAIN last_return.list :
            last_return.list[i] \notin DOMAIN task_coroutine_map

\* C40: in command(), a caller whose reply callback ran before it suspended
\* does not suspend and is not resumed; a caller whose reply callback ran
\* after it suspended is resumed exactly once; no caller is suspended once
\* its reply has been delivered
RepliedCallerNotSuspended ==
    \A co \in CmdCos :
        /\ cmd_co[co].reply = "early" =>
               cmd_co[co].pc # "suspended" /\ cmd_co[co].resumes = 0
        /\ cmd_co[co].reply = "late" =>
               cmd_co[co].pc # "suspended" /\ cmd_co[co].resumes = 1

\* C40 witness: the reply callback ran inside Server::command, before the
\* caller could suspend, and command() returned the reply without yielding
EarlyReplySkipsYield ==
    \E co \in CmdCos :
        cmd_co[co].reply = "early" /\ cmd_co[co].pc = "done" /\ cmd_co[co].ret = "reply"

\* C36: after any sequence of set() calls send_yield is enabled only if
\* dispatch_mode is FDMOD (2) or IPMOD (4)
SendYieldOnlyForFdOrIpMode ==
    settings.send_yield => settings.dispatch_mode \in {DISPATCH_FDMOD, DISPATCH_IPMOD}

\* C35: after any sequence of on() calls, also ones that failed because the
\* callable was invalid, every non-empty slot of the callback table refers to
\* a callable that is live
CallbackSlotsLive ==
    \A e \in ServerEvents : callbacks[e] # 0 => callables[callbacks[e]] = "live"

\* the configuration calls that a step may be
is_config_call ==
    \/ cfg_last' # cfg_last
    \/ set_last' # set_last
    \/ (cmd_last' # cmd_last /\ cmd_last'.op = "addCommand")

\* C39: once the server is started, outside a worker thread, set(), on(),
\* listen(), addProcess() and addCommand() return failure and leave the
\* configuration, the callback table, the port list, the user-process list
\* and the command table unchanged
StartedServerRefusesConfig ==
    [][(server_state.started /\ ~start_env.worker_thread /\ is_config_call) =>
          /\ UNCHANGED <<settings, callbacks, callables, properties, ports,
                         user_processes, commands, command_callbacks>>
          /\ cfg_last' # cfg_last => ~cfg_last'.returned
          /\ set_last' # set_last => ~set_last'.returned
          /\ cmd_last' # cmd_last => ~cmd_last'.returned]_vars

\* C39 witness: a server with a callback, a second port, a user process and a
\* command was started, and a configuration call on it was refused
ConfiguredServerRefusedCall ==
    /\ server_state.started /\ ~start_env.worker_thread
    /\ cfg_last.op \in {"on", "listen", "addProcess"} /\ ~cfg_last.returned
    /\ \E e \in ServerEvents : callbacks[e] # 0
    /\ Len(ports) > 1 /\ user_processes # <<>> /\ DOMAIN commands # {}

\* C31: a reactor teardown removes a signalfd object from an event loop only
\* in the process that created the object; the teardown of a forked child
\* leaves the parent's signal socket in the event loop
TeardownDeletesOnlyOwnSignalfd ==
    [][teardown_last'.seq # teardown_last.seq =>
          \A e \in DOMAIN epolls : \A fd \in epolls[e] \ epolls'[e] :
              signalfds[fd] = teardown_last'.pid]_vars

\* C31 witness: a forked child tore down the reactor it inherited, its
\* destroy callback ran with the parent's signal socket, and the event loop
\* still polls that socket
ChildTeardownKeptParentSocket ==
    /\ teardown_last.pid # 0 /\ teardown_last.fd # -1 /\ teardown_last.callback
    /\ signalfds[teardown_last.fd] # teardown_last.pid
    /\ ~teardown_last.deleted
    /\ \E e \in DOMAIN epolls : teardown_last.fd \in epolls[e]
    /\ procs[signalfds[teardown_last.fd]].signal_fd = teardown_last.fd
====
